---- MODULE Spec2Model ----
(***************************************************************************)
(* Orchestration core of the trading assistant: the shared ToolManager and *)
(* its AgentToolViews (ai_engine/tool_manager.py), the per-agent model     *)
(* call loop with retry/backoff (ai_engine/agents/base.py) and the         *)
(* semaphore-gated fan-out of Orchestrator.analyze_ticker                  *)
(* (ai_engine/orchestrator.py).                                            *)
(***************************************************************************)
EXTENDS Integers, Sequences, FiniteSets, TLC

\* ------------------------------------------------------------------------
\* Bounds of the model
\* ------------------------------------------------------------------------
NumTasks == 2        \* concurrent execute_tool calls in flight
NumRuns == 2         \* analyze_ticker runs in flight on one Orchestrator
MaxTime == 120       \* last value of time.time() explored (seconds)
TimeStep == 60       \* seconds that pass between two observations of time

Tasks == 1..NumTasks

\* ------------------------------------------------------------------------
\* Argument maps and the cache key (tool_manager.py:33-35)
\* ------------------------------------------------------------------------
\* A Python value carried as an argument: its type and its str() form.
StrVal(s) == [ty |-> "str", s |-> s]

\* A tool-call "arguments" value: a dict (items in insertion order) or None.
Dict(items) == [kind |-> "dict", items |-> items]
NoneArgs == [kind |-> "none", items |-> <<>>]

ArgsAAPL == Dict(<< <<"ticker", StrVal("AAPL")>> >>)
ArgsMSFT == Dict(<< <<"ticker", StrVal("MSFT")>> >>)

\* Position of an argument name in Python's string order.
KeyRank(k) ==
  CASE k = "horizon" -> 1
    [] k = "ticker" -> 2
    [] OTHER -> 3

RECURSIVE InsertSorted(_, _)
InsertSorted(item, sorted) ==
  IF sorted = <<>> THEN <<item>>
  ELSE IF KeyRank(item[1]) < KeyRank(Head(sorted)[1])
       THEN <<item>> \o sorted
       ELSE <<Head(sorted)>> \o InsertSorted(item, Tail(sorted))

\* sorted(arguments.items())
RECURSIVE SortedItems(_)
SortedItems(items) ==
  IF items = <<>> THEN <<>>
  ELSE InsertSorted(Head(items), SortedItems(Tail(items)))

\* "_".join(f"{k}:{v}" for k, v in ...)
RECURSIVE JoinItems(_)
JoinItems(items) ==
  IF items = <<>> THEN ""
  ELSE LET h == Head(items)[1] \o ":" \o Head(items)[2].s
       IN IF Len(items) = 1 THEN h ELSE h \o "_" \o JoinItems(Tail(items))

\* cache_key = f"{name}_{arg_str}"
CacheKey(name, arguments) == name \o "_" \o JoinItems(SortedItems(arguments.items))

\* ------------------------------------------------------------------------
\* Registered tools and views (orchestrator.py:114-132)
\* ------------------------------------------------------------------------
\* The JSON schema handed to register_tool, told apart by the tool it
\* describes and by its revision.
Schema(name, rev) == [name |-> name, rev |-> rev]
\* One entry of ToolManager._tools (tool_manager.py:15-19).
Entry(name, ttl) == [ttl |-> ttl, schema |-> Schema(name, "v1")]

RegisteredTools ==
  [get_indicators          |-> Entry("get_indicators", 60),
   fetch_ticker_stats      |-> Entry("fetch_ticker_stats", 3600),
   fetch_financial_docs    |-> Entry("fetch_financial_docs", 86400),
   get_peer_group          |-> Entry("get_peer_group", 86400),
   fetch_insider_activity  |-> Entry("fetch_insider_activity", 43200),
   get_earnings_forecast   |-> Entry("get_earnings_forecast", 86400),
   get_macro_events        |-> Entry("get_macro_events", 43200),
   get_social_sentiment    |-> Entry("get_social_sentiment", 1800),
   predict_price_direction |-> Entry("predict_price_direction", 3600)]
\* The keys of ToolManager._tools in the order of their registration.
RegisteredNames ==
  <<"get_indicators", "fetch_ticker_stats", "fetch_financial_docs",
    "get_peer_group", "fetch_insider_activity", "get_earnings_forecast",
    "get_macro_events", "get_social_sentiment", "predict_price_direction">>

\* ToolManager.view(*allowed_tool_names): the allow-list of the view.
view(allowed) == [scoped |-> TRUE, allowed |-> allowed]
\* A caller that holds the ToolManager itself (orchestrator.py:427).
Direct == [scoped |-> FALSE, allowed |-> {}]

QuantView == view({"get_indicators", "predict_price_direction"})
ScoutView == view({"get_social_sentiment", "get_macro_events"})
\* a second view over get_indicators, as any caller of view() may create;
\* view() accepts names that no tool is registered under
SharedView == view({"get_indicators", "get_social_sentiment", "no_such_tool"})

\* Each caller holds one view for its lifetime (orchestrator.py:129-132).
ViewOf(t) ==
  IF t % 3 = 1 THEN QuantView ELSE IF t % 3 = 2 THEN SharedView ELSE ScoutView

\* Inputs (name, arguments) of execute_tool explored by the model.
CallInputs ==
  {<<"get_indicators", ArgsAAPL>>, <<"get_indicators", ArgsMSFT>>,
   <<"get_social_sentiment", ArgsAAPL>>, <<"get_indicators", NoneArgs>>,
   <<"no_such_tool", NoneArgs>>}
\* Values a tool callable may return.
ToolResults == {[ok |-> "r1"], [ok |-> "r2"]}

ErrNotAvailable == [error |-> "not available to this agent"]
ErrNotFound == [error |-> "not found"]
ErrRaised == [error |-> "callable raised"]
NoResult == [none |-> TRUE]

VARIABLES
  tools,   \* ToolManager._tools: name -> [ttl, schema]
  cache,   \* ToolManager._cache: key -> [value, expires_at]
  clock,   \* time.time()
  task,    \* the execute_tool calls in flight, one record per caller
  cm,      \* the locals of one BaseAgent.call_model invocation
  sem,     \* Orchestrator.semaphore: the number of free slots
  waiters, \* the run_resilient tasks blocked in "async with self.semaphore"
  wk,      \* per analyze_ticker run, the state of its five run_resilient tasks
  results, \* per analyze_ticker run, the list built from gather's result
  tool_context, \* Quant._tool_context, a field of the one shared Quant agent
  qa,      \* per analyze_ticker run, the state of its Quant.analyze call
  norm,    \* one worker's result on its way through normalize
  dec,     \* the locals of one Executioner.decide call
  names,   \* the keys of ToolManager._tools in insertion order
  schemas, \* the latest get_tool_schemas call and the list it returned
  portfolio, \* paper trading: the stored portfolio (data/portfolio.json)
  order,   \* paper trading: the latest execute_order call and its outcome
  ans,     \* a terminal provider answer on its way through the decoding
  auto,    \* the end of one analyze_ticker run: decision, validation, trade
  sync,    \* the sync_portfolio_stops calls in flight, one record per caller
  an       \* Analyst: the file cache and the latest analyze call

toolVars == <<tools, cache, clock, task>>
agentVars == <<cm>>
orchVars == <<sem, waiters, wk, results>>
ctxVars == <<tool_context, qa>>
synVars == <<norm, dec>>
regVars == <<names, schemas>>
paperVars == <<portfolio, order>>
parseVars == <<ans>>
riskVars == <<auto>>
syncVars == <<sync>>
analystVars == <<an>>
vars ==
  <<tools, cache, clock, task, cm, sem, waiters, wk, results, tool_context, qa,
    norm, dec, names, schemas, portfolio, order, ans, auto, sync, an>>

\* context=None, the default of execute_tool
NoneContext == "None"

IdleTask ==
  [pc |-> "idle", name |-> "", arguments |-> NoneArgs, context |-> NoneContext,
   direct |-> FALSE, key |-> "", now |-> 0,
   ttl |-> 0, invoked |-> FALSE, hit |-> FALSE, stored |-> FALSE,
   result |-> NoResult]

InitToolVars ==
  /\ tools = RegisteredTools
  /\ cache = <<>>
  /\ clock = 0
  /\ task = [t \in Tasks |-> IdleTask]

\* Faults of the liveness test: the comparison inverted, and the boundary
\* instant now = expires_at counted as live.
CacheLive_Inverted(c, key, now) == key \in DOMAIN c /\ c[key].expires_at < now
CacheLive_Inclusive(c, key, now) == key \in DOMAIN c /\ c[key].expires_at >= now

\* cached and cached["expires_at"] > now
CacheLive(c, key, now) == key \in DOMAIN c /\ c[key].expires_at > now

\* The cache after self._cache[cache_key] = {...}
CachePut(c, key, entry) ==
  [k \in DOMAIN c \cup {key} |-> IF k = key THEN entry ELSE c[k]]

\* Fault of line 29: the entry is subscripted (self._tools[name]), so that an
\* unregistered name raises instead of returning the error value.
ManagerCall_Subscript(rec, name, arguments) ==
  IF name \notin DOMAIN tools
  THEN [rec EXCEPT !.pc = "raised"]
  ELSE IF arguments.kind # "dict"
  THEN [rec EXCEPT !.pc = "raised"]
  ELSE LET key == CacheKey(name, arguments)
           r == [rec EXCEPT !.key = key, !.now = clock, !.ttl = tools[name].ttl]
       IN IF CacheLive(cache, key, clock)
          THEN [rec EXCEPT !.pc = "done", !.key = key, !.hit = TRUE,
                           !.result = cache[key].value]
          ELSE [r EXCEPT !.pc = "await", !.invoked = TRUE]

\* The record of a call after the synchronous part of ToolManager.execute_tool
\* (lines 29-54): up to the first return, raise or the await of the callable.
ManagerCall(rec, name, arguments) ==
  IF name \notin DOMAIN tools
  THEN [rec EXCEPT !.pc = "done", !.result = ErrNotFound]
  ELSE IF arguments.kind # "dict"
  THEN [rec EXCEPT !.pc = "raised"]     \* arguments.items() outside the try
  ELSE LET key == CacheKey(name, arguments)
           r == [rec EXCEPT !.key = key, !.now = clock, !.ttl = tools[name].ttl]
       IN IF CacheLive(cache, key, clock)
          THEN [rec EXCEPT !.pc = "done", !.key = key, !.hit = TRUE,
                           !.result = cache[key].value]
          ELSE [r EXCEPT !.pc = "await", !.invoked = TRUE]

\* Fault of the view: the allow-list is not consulted.
ViewCall_Unchecked(rec, v, name, arguments) == ManagerCall(rec, name, arguments)

\* AgentToolView.execute_tool (lines 91-94); a Direct caller enters
\* ToolManager.execute_tool without a view.
ViewCall(rec, v, name, arguments) ==
  IF v.scoped /\ name \notin v.allowed
  THEN [rec EXCEPT !.pc = "done", !.result = ErrNotAvailable]
  ELSE ManagerCall(rec, name, arguments)

\* Caller t starts execute_tool(name, arguments) through its view.
BeginCall(t, name, arguments) ==
  /\ task[t].pc = "idle"
  /\ task' = [task EXCEPT ![t] =
        ViewCall([IdleTask EXCEPT !.name = name, !.arguments = arguments],
                 ViewOf(t), name, arguments)]
  /\ UNCHANGED <<tools, cache, clock>>

\* Fault of the store: the expiry counted from the completion of the callable.
FinishCall_FromCompletion(t, val) ==
  /\ task[t].pc = "await"
  /\ cache' = CachePut(cache, task[t].key,
                 [value |-> val, expires_at |-> clock + task[t].ttl])
  /\ task' = [task EXCEPT ![t].pc = "done", ![t].stored = TRUE, ![t].result = val,
                           ![t].now = 0, ![t].ttl = 0]
  /\ UNCHANGED <<tools, clock>>

\* The awaited callable returns value val: lines 56-62.
FinishCall(t, val) ==
  /\ task[t].pc = "await"
  /\ cache' = CachePut(cache, task[t].key,
                 [value |-> val, expires_at |-> task[t].now + task[t].ttl])
  /\ task' = [task EXCEPT ![t].pc = "done", ![t].stored = TRUE, ![t].result = val,
                           ![t].now = 0, ![t].ttl = 0]
  /\ UNCHANGED <<tools, clock>>

\* The awaited callable raises: lines 63-64.
FailCall(t) ==
  /\ task[t].pc = "await"
  /\ task' = [task EXCEPT ![t].pc = "done", ![t].result = ErrRaised,
                           ![t].now = 0, ![t].ttl = 0]
  /\ UNCHANGED <<tools, cache, clock>>

\* The caller has consumed the outcome of its call.
ReturnCall(t) ==
  /\ task[t].pc \in {"done", "raised"}
  /\ task' = [task EXCEPT ![t] = IdleTask]
  /\ UNCHANGED <<tools, cache, clock>>

\* ToolManager.clear_cache
clear_cache ==
  /\ cache # <<>>
  /\ cache' = <<>>
  /\ UNCHANGED <<tools, clock, task>>

\* Time passes.
Tick ==
  /\ clock + TimeStep <= MaxTime
  /\ clock' = clock + TimeStep
  /\ UNCHANGED <<tools, cache, task>>

\* ------------------------------------------------------------------------
\* Cache keys, contexts and the direct call (tool_manager.py:25-62,
\* orchestrator.py:423-435)
\* ------------------------------------------------------------------------
\* An integer argument with the given str() form.
NumVal(s) == [ty |-> "int", s |-> s]

\* The argument map of a call: its items, whatever their order.
ArgMap(arguments) == {arguments.items[i] : i \in 1..Len(arguments.items)}

\* The data packages of two analysis runs, passed as context.
Contexts == {"history of run 1", "history of run 2"}

\* The tools whose callable has a context parameter
\* (technical_tools.py:11, ml_tools.py:66-68).
AcceptsContext == {"get_indicators", "predict_price_direction"}

\* Lines 47-54: the value the callable computes, told apart by the tool, the
\* keyword arguments and the context it was invoked with.
Computed(rec) ==
  [tool |-> rec.name, kwargs |-> ArgMap(rec.arguments),
   context |-> IF rec.context # NoneContext /\ rec.name \in AcceptsContext
               THEN rec.context ELSE NoneContext]

\* {"ticker": ticker, "horizon": horizon} of orchestrator.py:429
ArgsTickerHorizon ==
  Dict(<< <<"ticker", StrVal("AAPL")>>, <<"horizon", StrVal("Swing")>> >>)

\* Calls (name, arguments) made through execute_tool: the same map in two
\* orders, a map without horizon, an argument as int and as str, and a value
\* that holds the separators of the key.
KeyInputs ==
  {<<"get_indicators", ArgsAAPL>>,
   <<"predict_price_direction", ArgsTickerHorizon>>,
   <<"predict_price_direction",
     Dict(<< <<"horizon", StrVal("Swing")>>, <<"ticker", StrVal("AAPL")>> >>)>>,
   <<"predict_price_direction", ArgsAAPL>>,
   <<"get_peer_group", Dict(<< <<"ticker", NumVal("1")>> >>)>>,
   <<"get_peer_group", Dict(<< <<"ticker", StrVal("1")>> >>)>>,
   <<"get_indicators", Dict(<< <<"horizon", StrVal("Swing_ticker:AAPL")>> >>)>>,
   <<"get_indicators",
     Dict(<< <<"horizon", StrVal("Swing")>>, <<"ticker", StrVal("AAPL")>> >>)>>}

\* ToolManager.execute_tool(name, arguments, context) up to the return of
\* the cached value or the await of the callable (lines 29-54).
execute_tool(t, name, arguments, context) ==
  /\ task[t].pc = "idle"
  /\ task' = [task EXCEPT ![t] =
        ManagerCall([IdleTask EXCEPT !.name = name, !.arguments = arguments,
                                     !.context = context],
                    name, arguments)]
  /\ UNCHANGED <<tools, cache, clock>>

\* orchestrator.py:427-431: the direct call made after the workers have
\* finished, with the run's data package as context.
AttachChronos(t, data_package) ==
  /\ task[t].pc = "idle"
  /\ task' = [task EXCEPT ![t] =
        ManagerCall([IdleTask EXCEPT !.name = "predict_price_direction",
                                     !.arguments = ArgsTickerHorizon,
                                     !.context = data_package,
                                     !.direct = TRUE],
                    "predict_price_direction", ArgsTickerHorizon)]
  /\ UNCHANGED <<tools, cache, clock>>

\* The awaited callable returns what it computed from its invocation.
CallableReturns(t) == FinishCall(t, Computed(task[t]))

\* ------------------------------------------------------------------------
\* The registry and the schema lists (tool_manager.py:11-23, 80-89)
\* ------------------------------------------------------------------------
\* A view over a tool registered after the view was created, and over
\* get_indicators.
ExtraView == view({"extra_tool", "get_indicators"})
Views == {QuantView, SharedView, ExtraView, Direct}

\* No get_tool_schemas call was made yet.
NoSchemas == [called |-> FALSE, view |-> Direct, list |-> <<>>]

InitRegVars == names = RegisteredNames /\ schemas = NoSchemas

\* Calls of register_tool(name, func, schema, ttl) made after construction:
\* a new tool, a new revision of a schema, one schema under two names, and
\* the name that SharedView allows without a tool registered under it.
RegisterInputs ==
  {<<"extra_tool", Schema("extra_tool", "v1"), 60>>,
   <<"extra_tool", Schema("get_indicators", "v1"), 60>>,
   <<"get_indicators", Schema("get_indicators", "v2"), 60>>,
   <<"no_such_tool", Schema("no_such_tool", "v1"), 3600>>}

\* self._tools[name] = {"func": func, "schema": schema, "ttl": ttl}: a new
\* key goes to the end of the dict, a known key keeps its place.
register_tool(name, schema, ttl) ==
  /\ tools' = [n \in DOMAIN tools \cup {name} |->
                 IF n = name THEN [ttl |-> ttl, schema |-> schema] ELSE tools[n]]
  /\ names' = IF name \in DOMAIN tools THEN names ELSE Append(names, name)
  /\ UNCHANGED <<cache, clock, task, schemas>>

\* [t["schema"] for name, t in parent._tools.items() if name in allowed],
\* over the dict given as its keys in order and its entries.
RECURSIVE SchemaList(_, _, _)
SchemaList(keys, entries, allowed) ==
  IF keys = <<>> THEN <<>>
  ELSE (IF Head(keys) \in allowed THEN <<entries[Head(keys)].schema>> ELSE <<>>)
       \o SchemaList(Tail(keys), entries, allowed)

\* Fault of the view: the list is taken from the registry as it was when the
\* view was created.
ViewSchemas_AtCreation(v) ==
  IF v.scoped
  THEN SchemaList(RegisteredNames, RegisteredTools, v.allowed)
  ELSE SchemaList(names, tools, DOMAIN tools)

\* AgentToolView.get_tool_schemas (lines 84-89); for a holder of the
\* ToolManager itself, ToolManager.get_tool_schemas (lines 21-23).
ViewSchemas(v) ==
  IF v.scoped
  THEN SchemaList(names, tools, v.allowed)
  ELSE SchemaList(names, tools, DOMAIN tools)

\* A holder of v calls get_tool_schemas().
get_tool_schemas(v) ==
  /\ schemas' = [called |-> TRUE, view |-> v, list |-> ViewSchemas(v)]
  /\ UNCHANGED <<tools, cache, clock, task, names>>

\* ------------------------------------------------------------------------
\* BaseAgent: retry classification (agents/base.py:109-138)
\* ------------------------------------------------------------------------
MaxRetries == 3          \* max_retries
MaxToolRounds == 3       \* max_tool_rounds

UpperCase == "ABCDEFGHIJKLMNOPQRSTUVWXYZ"
LowerCase == "abcdefghijklmnopqrstuvwxyz"

LowerChar(c) ==
  IF \E i \in 1..26 : SubSeq(UpperCase, i, i) = c
  THEN LET i == CHOOSE j \in 1..26 : SubSeq(UpperCase, j, j) = c
       IN SubSeq(LowerCase, i, i)
  ELSE c

\* str.lower()
RECURSIVE Lower(_)
Lower(s) ==
  IF Len(s) = 0 THEN ""
  ELSE LowerChar(SubSeq(s, 1, 1)) \o Lower(SubSeq(s, 2, Len(s)))

\* pat in text
Contains(text, pat) ==
  \E i \in 1..(Len(text) - Len(pat) + 1) : SubSeq(text, i, i + Len(pat) - 1) = pat

RETRYABLE_PATTERNS ==
  <<"429", "500", "503", "rate limit", "quota", "Resource has been exhausted",
    "overloaded">>
NON_RETRYABLE_PATTERNS == <<"401", "403", "400">>

\* any(p.lower() in err_str for p in patterns)
AnyPattern(patterns, err_str) ==
  \E i \in 1..Len(patterns) : Contains(err_str, Lower(patterns[i]))

\* Fault of the classification: the retryable patterns are tested first.
RetryDecision_RetryableFirst(text, attempt, max_retries) ==
  LET err_str == Lower(text)
  IN IF AnyPattern(RETRYABLE_PATTERNS, err_str)
     THEN IF attempt >= max_retries THEN "raise" ELSE "sleep"
     ELSE "raise"

\* Fault of the budget: one retry more than max_retries.
RetryDecision_OneMore(text, attempt, max_retries) ==
  LET err_str == Lower(text)
  IN IF AnyPattern(NON_RETRYABLE_PATTERNS, err_str) THEN "raise"
     ELSE IF ~AnyPattern(RETRYABLE_PATTERNS, err_str) \/ attempt > max_retries
          THEN "raise"
          ELSE "sleep"

\* Fault of lines 127-129: every failure without a non-retryable pattern is
\* retried.
RetryDecision_RetryUnknown(text, attempt, max_retries) ==
  LET err_str == Lower(text)
  IN IF AnyPattern(NON_RETRYABLE_PATTERNS, err_str) THEN "raise"
     ELSE IF attempt >= max_retries THEN "raise" ELSE "sleep"

\* The except branch of _retry_with_backoff (lines 118-136) for a failure with
\* the given text on the given attempt: re-raise, or sleep and try again.
RetryDecision(text, attempt, max_retries) ==
  LET err_str == Lower(text)
  IN IF AnyPattern(NON_RETRYABLE_PATTERNS, err_str) THEN "raise"
     ELSE IF ~AnyPattern(RETRYABLE_PATTERNS, err_str) \/ attempt >= max_retries
          THEN "raise"
          ELSE "sleep"

RECURSIVE Pow2(_)
Pow2(n) == IF n = 0 THEN 1 ELSE 2 * Pow2(n - 1)

\* Fault of line 132: the delay grows by one second per retry.
Delay_Linear(attempt, jitter) == 10 * (attempt + 1) + jitter

\* delay = (2 ** attempt) + random.uniform(0, 1), in tenths of a second
Delay(attempt, jitter) == 10 * Pow2(attempt) + jitter
Jitters == {0, 9}

\* Texts of provider failures explored by the model.
E503 == "503 Service Unavailable"
E401 == "401 Unauthorized"
E429With400 == "429 Too Many Requests (request 4001)"
ERateLimit == "Rate Limit exceeded"
ETimeout == "Request timed out."
ErrorTexts == {E503, E401, E429With400, ERateLimit, ETimeout}

\* ------------------------------------------------------------------------
\* BaseAgent.call_model (agents/base.py:156-254)
\* ------------------------------------------------------------------------
\* A tool-call request of a provider response.
ToolCall(name, arguments) == [name |-> name, arguments |-> arguments]
ToolCallLists ==
  {<<ToolCall("get_indicators", ArgsAAPL)>>,
   <<ToolCall("get_indicators", NoneArgs)>>,
   <<ToolCall("get_social_sentiment", ArgsAAPL),
     ToolCall("get_indicators", ArgsAAPL)>>}

\* Terminal answers of a provider: text that decodes as JSON, or does not.
TerminalAnswers == {"json", "not_json"}

\* The execute_tool calls of the agent run in this slot (the Quant's view).
Worker == 1

IdleCM ==
  [pc |-> "idle", tm |-> FALSE, is_json |-> TRUE, round_num |-> 0,
   offer_tools |-> FALSE, attempt |-> 0, last_exception |-> "",
   delays |-> <<>>, pending |-> <<>>, all_tool_results |-> <<>>,
   content |-> [user_content |-> TRUE, tool_results |-> <<>>],
   rounds |-> 0, outcome |-> "none"]

InitAgentVars == cm = IdleCM

\* The return of call_model with the given kind of result.
Ended(rec, outcome) ==
  [rec EXCEPT !.pc = "done", !.outcome = outcome, !.pending = <<>>]

\* Lines 187-197: the content of a round is the user content, followed by
\* the dump of all_tool_results when that dict is not empty.
CurrentContent(all_tool_results) ==
  [user_content |-> TRUE, tool_results |-> all_tool_results]

\* Fault of line 183: tools are offered in every round of the loop.
EnterRound_OfferInLastRound(rec, round_num) ==
  IF round_num > MaxToolRounds
  THEN Ended(rec, "converge_error")
  ELSE [rec EXCEPT !.pc = "call", !.round_num = round_num,
                   !.offer_tools = rec.tm /\ round_num <= MaxToolRounds,
                   !.content = CurrentContent(rec.all_tool_results),
                   !.attempt = 0, !.last_exception = "", !.delays = <<>>,
                   !.rounds = rec.rounds + 1]

\* Fault of the retry wrapper: the attempts of earlier rounds count against
\* the budget of the round.
EnterRound_SharedBudget(rec, round_num) ==
  IF round_num > MaxToolRounds
  THEN Ended(rec, "converge_error")
  ELSE [rec EXCEPT !.pc = "call", !.round_num = round_num,
                   !.offer_tools = rec.tm /\ round_num < MaxToolRounds,
                   !.content = CurrentContent(rec.all_tool_results),
                   !.last_exception = "", !.delays = <<>>,
                   !.rounds = rec.rounds + 1]

\* Fault of the loop: one round more than max_tool_rounds + 1.
EnterRound_OneMore(rec, round_num) ==
  IF round_num > MaxToolRounds + 1
  THEN Ended(rec, "converge_error")
  ELSE [rec EXCEPT !.pc = "call", !.round_num = round_num,
                   !.offer_tools = rec.tm /\ round_num < MaxToolRounds,
                   !.content = CurrentContent(rec.all_tool_results),
                   !.attempt = 0, !.last_exception = "", !.delays = <<>>,
                   !.rounds = rec.rounds + 1]

\* The head of "for round_num in range(max_tool_rounds + 1)" (lines 180-214):
\* the loop is exhausted (line 251), or the round's retry-wrapped provider
\* call starts with attempt 0.
EnterRound(rec, round_num) ==
  IF round_num > MaxToolRounds
  THEN Ended(rec, "converge_error")
  ELSE [rec EXCEPT !.pc = "call", !.round_num = round_num,
                   !.offer_tools = rec.tm /\ round_num < MaxToolRounds,
                   !.content = CurrentContent(rec.all_tool_results),
                   !.attempt = 0, !.last_exception = "", !.delays = <<>>,
                   !.rounds = rec.rounds + 1]

\* call_model(user_content, api_config, is_json, tool_manager): lines 163-180.
CallModel(has_key, is_json, tm) ==
  /\ cm.pc = "idle"
  /\ cm' = IF ~has_key
           THEN Ended([IdleCM EXCEPT !.tm = tm, !.is_json = is_json], "no_api_key")
           ELSE EnterRound([IdleCM EXCEPT !.tm = tm, !.is_json = is_json], 0)
  /\ UNCHANGED toolVars

\* The provider call of the current attempt raises an error with this text:
\* the except branch of _retry_with_backoff, then (on re-raise) line 252.
ProviderRaises(text, jitter) ==
  /\ cm.pc = "call"
  /\ cm' = IF RetryDecision(text, cm.attempt, MaxRetries) = "raise"
           THEN Ended([cm EXCEPT !.last_exception = text], "provider_error")
           ELSE [cm EXCEPT !.pc = "sleep", !.last_exception = text,
                           !.delays = Append(cm.delays, Delay(cm.attempt, jitter))]
  /\ UNCHANGED toolVars

\* asyncio.sleep(delay) is over: the next attempt of the for loop (line 115).
Wake ==
  /\ cm.pc = "sleep"
  /\ cm' = [cm EXCEPT !.pc = "call", !.attempt = cm.attempt + 1]
  /\ UNCHANGED toolVars

\* The provider answers with tool-call requests (line 217).
ProviderRequestsTools(tool_calls) ==
  /\ cm.pc = "call"
  /\ cm' = [cm EXCEPT !.pc = "tools", !.pending = tool_calls]
  /\ UNCHANGED toolVars

\* The provider gives a terminal answer (lines 226-249).
ProviderAnswers(answer) ==
  /\ cm.pc = "call"
  /\ cm' = IF ~cm.is_json \/ answer = "json"
           THEN Ended(cm, "answer")
           ELSE Ended(cm, "parse_error")
  /\ UNCHANGED toolVars

\* tm.execute_tool(...) of line 219 when the agent has no tool manager.
NoToolManager ==
  /\ cm.pc = "tools" /\ ~cm.tm /\ cm.pending # <<>>
  /\ cm' = Ended(cm, "no_tool_manager")
  /\ UNCHANGED toolVars

\* Line 219: the next requested tool call enters execute_tool.
ExecuteTool ==
  /\ cm.pc = "tools" /\ cm.tm /\ cm.pending # <<>>
  /\ BeginCall(Worker, Head(cm.pending).name, Head(cm.pending).arguments)
  /\ UNCHANGED cm

\* The callable awaited by the agent's tool call returns or raises.
ToolReturns(val) == cm.pc = "tools" /\ FinishCall(Worker, val) /\ UNCHANGED cm
ToolFails == cm.pc = "tools" /\ FailCall(Worker) /\ UNCHANGED cm

\* Fault of line 220: the dict holds the latest result only.
Merge_Replace(acc, name, result) == [n \in {name} |-> result]

\* all_tool_results[tc["name"]] = result
Merge(acc, name, result) ==
  [n \in DOMAIN acc \cup {name} |-> IF n = name THEN result ELSE acc[n]]

\* Line 220: execute_tool returned a value.
MergeResult ==
  /\ cm.pc = "tools" /\ task[Worker].pc = "done"
  /\ cm' = [cm EXCEPT !.pending = Tail(cm.pending),
               !.all_tool_results =
                  Merge(cm.all_tool_results, task[Worker].name, task[Worker].result)]
  /\ task' = [task EXCEPT ![Worker] = IdleTask]
  /\ UNCHANGED <<tools, cache, clock>>

\* execute_tool raised: the exception leaves the loop and reaches line 252.
ToolRaises ==
  /\ cm.pc = "tools" /\ task[Worker].pc = "raised"
  /\ cm' = Ended(cm, "tool_exception")
  /\ task' = [task EXCEPT ![Worker] = IdleTask]
  /\ UNCHANGED <<tools, cache, clock>>

\* Line 224: continue with the next round.
NextRound ==
  /\ cm.pc = "tools" /\ cm.pending = <<>> /\ task[Worker].pc = "idle"
  /\ cm' = EnterRound(cm, cm.round_num + 1)
  /\ UNCHANGED toolVars

\* The caller has received the result of call_model.
ReturnModel ==
  /\ cm.pc = "done"
  /\ cm' = IdleCM
  /\ UNCHANGED toolVars

\* ------------------------------------------------------------------------
\* Orchestrator.analyze_ticker: gated fan-out (orchestrator.py:96-97, 306-338)
\* ------------------------------------------------------------------------
ConcurrencyLimit == 5    \* asyncio.Semaphore(5)

\* agent_tasks, in submission order
Agents == <<"chartist", "quant", "scout", "fundamentalist", "analyst">>
NumAgents == Len(Agents)

Runs == 1..NumRuns

InitOrchVars ==
  /\ sem = ConcurrencyLimit
  /\ waiters = <<>>
  /\ wk = [r \in Runs |-> [i \in 1..NumAgents |-> "new"]]
  /\ results = [r \in Runs |-> <<>>]

\* The value agent i returns from analyze, and the entry made for a failure.
Report(i) == [signal |-> "BULLISH", from |-> Agents[i]]
ErrorEntry == [error |-> "exception text", signal |-> "NEUTRAL"]

\* Fault of the gate: a task enters without looking at the free slots.
Enter_Ungated(r, i) ==
  /\ results[r] = <<>>
  /\ wk[r][i] = "new"
  /\ \A j \in 1..(i - 1) : wk[r][j] # "new"
  /\ wk' = [wk EXCEPT ![r][i] = "inside"]
  /\ UNCHANGED <<sem, waiters, results>>

\* Task i of run r reaches "async with self.semaphore" (line 307); gather
\* starts the tasks in submission order. With a free slot and nobody queued
\* the task enters and calls agent.analyze, otherwise it queues up.
Enter(r, i) ==
  /\ results[r] = <<>>
  /\ wk[r][i] = "new"
  /\ \A j \in 1..(i - 1) : wk[r][j] # "new"
  /\ IF sem > 0 /\ waiters = <<>>
     THEN /\ sem' = sem - 1
          /\ wk' = [wk EXCEPT ![r][i] = "inside"]
          /\ UNCHANGED waiters
     ELSE /\ waiters' = Append(waiters, <<r, i>>)
          /\ wk' = [wk EXCEPT ![r][i] = "waiting"]
          /\ UNCHANGED sem
  /\ UNCHANGED results

\* Fault of the exit: the slot goes back to the semaphore and a queued task
\* is not woken.
Release_NoWake(w, r, i, outcome) ==
  /\ sem' = sem + 1
  /\ wk' = [w EXCEPT ![r][i] = outcome]
  /\ UNCHANGED waiters

\* The task leaves the "async with" block with its outcome; the slot goes to
\* the first queued task, or back to the semaphore.
Release(w, r, i, outcome) ==
  IF waiters = <<>>
  THEN /\ sem' = sem + 1
       /\ wk' = [w EXCEPT ![r][i] = outcome]
       /\ UNCHANGED waiters
  ELSE /\ waiters' = Tail(waiters)
       /\ wk' = [w EXCEPT ![r][i] = outcome,
                          ![Head(waiters)[1]][Head(waiters)[2]] = "inside"]
       /\ UNCHANGED sem

\* agent.analyze returns (lines 309-310).
AnalyzeReturns(r, i) ==
  /\ wk[r][i] = "inside"
  /\ Release(wk, r, i, "returned")
  /\ UNCHANGED results

\* agent.analyze raises; run_resilient returns the error entry (lines 311-313).
AnalyzeRaises(r, i) ==
  /\ wk[r][i] = "inside"
  /\ Release(wk, r, i, "raised")
  /\ UNCHANGED results

\* The task leaves the "async with" block, by return or by exception handled
\* in lines 311-313; which of the two does not matter to the semaphore.
Leave(r, i) ==
  /\ wk[r][i] = "inside"
  /\ Release(wk, r, i, "left")
  /\ UNCHANGED results

\* Fault of the collection: entries of failed agents are left out.
Collected_DropFailed(tasks) ==
  LET kept == {i \in 1..NumAgents : tasks[i] = "returned"}
      F[n \in 0..NumAgents] ==
        IF n = 0 THEN <<>>
        ELSE IF n \in kept THEN Append(F[n - 1], Report(n)) ELSE F[n - 1]
  IN F[NumAgents]

\* results after lines 325-335: gather's list, one entry per task in
\* submission order.
Collected(tasks) ==
  [i \in 1..NumAgents |-> IF tasks[i] = "returned" THEN Report(i) ELSE ErrorEntry]

\* asyncio.gather returns once all five tasks are done (lines 325-335).
Gather(r) ==
  /\ results[r] = <<>>
  /\ \A i \in 1..NumAgents : wk[r][i] \in {"returned", "raised"}
  /\ results' = [results EXCEPT ![r] = Collected(wk[r])]
  /\ UNCHANGED <<sem, waiters, wk>>

\* The run is over; the next analyze_ticker call may use the slot.
EndRun(r) ==
  /\ results[r] # <<>>
  /\ results' = [results EXCEPT ![r] = <<>>]
  /\ wk' = [wk EXCEPT ![r] = [i \in 1..NumAgents |-> "new"]]
  /\ UNCHANGED <<sem, waiters>>

\* ------------------------------------------------------------------------
\* Quant.analyze and the tool context (agents/quant.py:9-76, base.py:31, 219)
\* ------------------------------------------------------------------------
MaxCalls == 2    \* tool calls followed within one Quant.analyze call

\* The data_package of run r, and the initial value of _tool_context.
DataPackage(r) == [run |-> r]
NoContext == [run |-> 0]

IdleQuant == [pc |-> "idle", passed |-> <<>>]

InitCtxVars ==
  /\ tool_context = NoContext
  /\ qa = [r \in Runs |-> IdleQuant]

\* Quant.analyze(ticker, horizon, data) of run r up to its first await:
\* line 11 stores the data package in the agent, lines 13-15 return early
\* without price history, line 71 awaits call_model.
QuantAnalyze(r, has_history) ==
  /\ qa[r].pc = "idle"
  /\ tool_context' = DataPackage(r)
  /\ qa' = [qa EXCEPT ![r].pc = IF has_history THEN "model" ELSE "done"]

\* base.py:219 inside that call_model: a requested tool is executed with
\* context=self._tool_context, read from the agent at the time of the call.
QuantToolCall(r) ==
  /\ qa[r].pc = "model"
  /\ Len(qa[r].passed) < MaxCalls
  /\ qa' = [qa EXCEPT ![r].passed = Append(qa[r].passed, tool_context)]
  /\ UNCHANGED tool_context

\* call_model returns and Quant.analyze returns its response (line 72).
QuantReturns(r) ==
  /\ qa[r].pc = "model"
  /\ qa' = [qa EXCEPT ![r].pc = "done"]
  /\ UNCHANGED tool_context

\* run_resilient has the result; nothing resets the agent's field.
QuantDone(r) ==
  /\ qa[r].pc = "done"
  /\ qa' = [qa EXCEPT ![r] = IdleQuant]
  /\ UNCHANGED tool_context

\* ------------------------------------------------------------------------
\* JSON-shaped values as Python sees them (the results of json.loads)
\* ------------------------------------------------------------------------
\* Numbers are Python floats, kept in tenths: JNum(12) is 1.2.
JNull == [t |-> "null"]
JBool(b) == [t |-> "bool", b |-> b]
JNum(n) == [t |-> "num", n |-> n]
JStr(s) == [t |-> "str", s |-> s]
JList(elems) == [t |-> "list", elems |-> elems]
JObj(items) == [t |-> "obj", items |-> items]    \* items in insertion order

\* k in d, d.get(k), d[k] = v
Has(d, k) == \E i \in 1..Len(d.items) : d.items[i][1] = k
Get(d, k) ==
  IF Has(d, k)
  THEN d.items[CHOOSE i \in 1..Len(d.items) : d.items[i][1] = k][2]
  ELSE JNull
Put(d, k, v) ==
  IF Has(d, k)
  THEN JObj([i \in 1..Len(d.items) |->
               IF d.items[i][1] = k THEN <<k, v>> ELSE d.items[i]])
  ELSE JObj(Append(d.items, <<k, v>>))

\* bool(v)
Truthy(v) ==
  CASE v.t = "null" -> FALSE
    [] v.t = "bool" -> v.b
    [] v.t = "num" -> v.n # 0
    [] v.t = "str" -> Len(v.s) > 0
    [] v.t = "list" -> Len(v.elems) > 0
    [] v.t = "obj" -> Len(v.items) > 0

\* vals[1] or vals[2] or ... : the first truthy operand, else the last one.
RECURSIVE FirstTruthy(_)
FirstTruthy(vals) ==
  IF Len(vals) = 1 \/ Truthy(vals[1]) THEN vals[1] ELSE FirstTruthy(Tail(vals))

\* d.get(keys[1]) or d.get(keys[2]) or ...
GetAny(d, keys) == FirstTruthy([i \in 1..Len(keys) |-> Get(d, keys[i])])

DigitChars == "0123456789"

RECURSIVE IntText(_)
IntText(n) ==
  IF n < 10 THEN SubSeq(DigitChars, n + 1, n + 1)
  ELSE IntText(n \div 10) \o SubSeq(DigitChars, (n % 10) + 1, (n % 10) + 1)

\* str() of a float with one decimal
FloatText(n) ==
  LET a == IF n < 0 THEN -n ELSE n
  IN (IF n < 0 THEN "-" ELSE "") \o IntText(a \div 10) \o "." \o IntText(a % 10)

RECURSIVE JoinText(_, _)
JoinText(texts, sep) ==
  IF Len(texts) = 0 THEN ""
  ELSE IF Len(texts) = 1 THEN texts[1]
  ELSE texts[1] \o sep \o JoinText(Tail(texts), sep)

\* str(v), or repr(v) for a value printed inside a list or a dict
RECURSIVE PyText(_, _)
PyText(v, quoted) ==
  CASE v.t = "null" -> "None"
    [] v.t = "bool" -> IF v.b THEN "True" ELSE "False"
    [] v.t = "num" -> FloatText(v.n)
    [] v.t = "str" -> IF quoted THEN "'" \o v.s \o "'" ELSE v.s
    [] v.t = "list" ->
         "[" \o JoinText([i \in 1..Len(v.elems) |-> PyText(v.elems[i], TRUE)],
                         ", ") \o "]"
    [] v.t = "obj" ->
         "{" \o JoinText([i \in 1..Len(v.items) |->
                            "'" \o v.items[i][1] \o "': "
                                \o PyText(v.items[i][2], TRUE)], ", ") \o "}"

UpperChar(c) ==
  IF \E i \in 1..26 : SubSeq(LowerCase, i, i) = c
  THEN LET i == CHOOSE j \in 1..26 : SubSeq(LowerCase, j, j) = c
       IN SubSeq(UpperCase, i, i)
  ELSE c

\* str.upper()
RECURSIVE Upper(_)
Upper(s) ==
  IF Len(s) = 0 THEN ""
  ELSE UpperChar(SubSeq(s, 1, 1)) \o Upper(SubSeq(s, 2, Len(s)))

IsDigit(c) == \E i \in 1..10 : SubSeq(DigitChars, i, i) = c
DigitVal(c) == (CHOOSE i \in 1..10 : SubSeq(DigitChars, i, i) = c) - 1

RECURSIVE IsDigits(_)
IsDigits(s) ==
  Len(s) = 0 \/ (IsDigit(SubSeq(s, 1, 1)) /\ IsDigits(SubSeq(s, 2, Len(s))))

RECURSIVE IntVal(_)
IntVal(s) ==
  IF Len(s) = 0 THEN 0
  ELSE IntVal(SubSeq(s, 1, Len(s) - 1)) * 10 + DigitVal(SubSeq(s, Len(s), Len(s)))

\* float(text) for decimal texts with at most one fractional digit; any other
\* text is a ValueError.
ParseFloat(s) ==
  LET neg == Len(s) > 0 /\ SubSeq(s, 1, 1) = "-"
      body == IF neg THEN SubSeq(s, 2, Len(s)) ELSE s
      dotted == Len(body) >= 3 /\ SubSeq(body, Len(body) - 1, Len(body) - 1) = "."
      whole == IF dotted THEN SubSeq(body, 1, Len(body) - 2) ELSE body
      frac == IF dotted THEN SubSeq(body, Len(body), Len(body)) ELSE "0"
      ok == Len(whole) > 0 /\ IsDigits(whole) /\ IsDigits(frac)
      a == IF ok THEN IntVal(whole) * 10 + IntVal(frac) ELSE 0
  IN [ok |-> ok, n |-> IF neg THEN -a ELSE a]

\* float(v): a number, or a ValueError / TypeError (ok = FALSE)
ToFloat(v) ==
  CASE v.t = "num" -> [ok |-> TRUE, n |-> v.n]
    [] v.t = "bool" -> [ok |-> TRUE, n |-> IF v.b THEN 10 ELSE 0]
    [] v.t = "str" -> ParseFloat(v.s)
    [] OTHER -> [ok |-> FALSE, n |-> 0]

\* max(lo, min(hi, x))
Clamp(lo, hi, x) ==
  LET m == IF x < hi THEN x ELSE hi IN IF m > lo THEN m ELSE lo

\* ------------------------------------------------------------------------
\* normalize (orchestrator.py:342-415) and its use (lines 417-456)
\* ------------------------------------------------------------------------
SummaryMinLen == 50      \* len(summary) < 50
FindingsShown == 2       \* findings[:2]

BullishWords == <<"BULLISH", "BUY", "POSITIVE", "APPROVE">>
BearishWords == <<"BEARISH", "SELL", "NEGATIVE", "VETO", "REJECT">>

\* any(kw in raw_signal for kw in words)
AnyWord(words, raw_signal) ==
  \E i \in 1..Len(words) : Contains(raw_signal, words[i])

\* Lines 360-365.
Classify(raw_signal) ==
  IF AnyWord(BullishWords, raw_signal) THEN "BULLISH"
  ELSE IF AnyWord(BearishWords, raw_signal) THEN "BEARISH"
  ELSE "NEUTRAL"

\* Fault of lines 348-352: approved is consulted only when the report has
\* none of signal, action and outlook.
ResolveSignal_SignalFirst(res) ==
  LET approved == Get(res, "approved")
      first == FirstTruthy(<<Get(res, "signal"), Get(res, "action"),
                             Get(res, "outlook"), JNull>>)
      sig == IF first.t = "obj"
             THEN FirstTruthy(<<Get(first, "status"), Get(first, "action"),
                                JStr(PyText(first, FALSE))>>)
             ELSE first
  IN IF Truthy(first) THEN Classify(Upper(PyText(sig, FALSE)))
     ELSE IF approved.t = "bool" /\ approved.b THEN "BULLISH"
     ELSE IF approved.t = "bool" /\ ~approved.b THEN "BEARISH"
     ELSE "NEUTRAL"

\* Fault of line 359: the raw signal is classified as it is written.
ResolveSignal_NoUpper(res) ==
  LET approved == Get(res, "approved")
  IN IF approved.t = "bool" /\ approved.b THEN "BULLISH"
     ELSE IF approved.t = "bool" /\ ~approved.b THEN "BEARISH"
     ELSE
       LET first == FirstTruthy(<<Get(res, "signal"), Get(res, "action"),
                                  Get(res, "outlook"), JStr("NEUTRAL")>>)
           sig == IF first.t = "obj"
                  THEN FirstTruthy(<<Get(first, "status"), Get(first, "action"),
                                     JStr(PyText(first, FALSE))>>)
                  ELSE first
       IN Classify(PyText(sig, FALSE))

\* Lines 348-365: the signal written into the report.
ResolveSignal(res) ==
  LET approved == Get(res, "approved")
  IN IF approved.t = "bool" /\ approved.b THEN "BULLISH"
     ELSE IF approved.t = "bool" /\ ~approved.b THEN "BEARISH"
     ELSE
       LET first == FirstTruthy(<<Get(res, "signal"), Get(res, "action"),
                                  Get(res, "outlook"), JStr("NEUTRAL")>>)
           sig == IF first.t = "obj"
                  THEN FirstTruthy(<<Get(first, "status"), Get(first, "action"),
                                     JStr(PyText(first, FALSE))>>)
                  ELSE first
       IN Classify(Upper(PyText(sig, FALSE)))

\* Lines 368-377: a present, non-null field is replaced by its clamped float
\* unless float() raises ValueError or TypeError.
ClampField(res, k, lo, hi) ==
  IF Has(res, k) /\ Get(res, k).t # "null" /\ ToFloat(Get(res, k)).ok
  THEN Put(res, k, JNum(Clamp(lo, hi, ToFloat(Get(res, k)).n)))
  ELSE res

SummaryKeys ==
  <<"summary", "analysis_summary", "analysis", "reasoning", "rationale",
    "veto_reason", "reason", "commentary", "details">>
NestedSummaryKeys ==
  <<"text", "summary", "reasoning", "technical_summary", "fundamental_outlook">>
FindingsKeys == <<"key_findings", "red_flags", "key_points">>

\* Lines 381-404: the summary text, or the exception raised on the way
\* (next() on the values of an empty dict).
ResolveSummary(res) ==
  LET raw_summary == GetAny(res, SummaryKeys)
  IN IF raw_summary.t = "obj" /\ Len(raw_summary.items) = 0
     THEN [raised |-> "StopIteration", text |-> ""]
     ELSE
       LET picked ==
             IF raw_summary.t = "obj"
             THEN FirstTruthy(
                    [i \in 1..(Len(NestedSummaryKeys) + 1) |->
                       IF i <= Len(NestedSummaryKeys)
                       THEN Get(raw_summary, NestedSummaryKeys[i])
                       ELSE raw_summary.items[1][2]])
             ELSE raw_summary
       IN [raised |-> "",
           text |-> PyText(FirstTruthy(<<picked, JStr("Analysis complete.")>>),
                           FALSE)]

\* Lines 407-412: a short summary is extended by the findings; str.join
\* raises TypeError for an element that is not a string.
Enrich(res, summary) ==
  IF Len(summary) >= SummaryMinLen THEN [raised |-> "", text |-> summary]
  ELSE
    LET findings == GetAny(res, FindingsKeys)
        n == IF findings.t = "list"
             THEN (IF Len(findings.elems) < FindingsShown
                   THEN Len(findings.elems) ELSE FindingsShown)
             ELSE 0
    IN IF findings.t = "list" /\ n > 0
       THEN IF \E i \in 1..n : findings.elems[i].t # "str"
            THEN [raised |-> "TypeError", text |-> summary]
            ELSE [raised |-> "",
                  text |-> summary \o " Key points: "
                             \o JoinText([i \in 1..n |-> findings.elems[i].s], "; ")]
       ELSE IF findings.t = "str" /\ Len(findings.s) > 0
       THEN [raised |-> "", text |-> summary \o " " \o findings.s]
       ELSE [raised |-> "", text |-> summary]

\* The result of a normalize(res) call: the exception raised (or ""), the
\* value returned, the object res as the call leaves it, and whether the
\* value returned is that same object.
Outcome(raised, value, res, same) ==
  [raised |-> raised, value |-> value, res |-> res, same |-> same]

\* Fault of normalize: the report is a new dict of the three report fields.
normalize_NewReport(res) ==
  IF res.t = "null"
  THEN Outcome("", JObj(<< <<"summary", JStr("None")>>,
                           <<"signal", JStr("NEUTRAL")>>,
                           <<"confidence", JNum(0)>> >>), res, FALSE)
  ELSE IF res.t # "obj"
  THEN Outcome("", JObj(<< <<"summary", JStr(PyText(res, FALSE))>> >>), res, FALSE)
  ELSE
    LET clamped == ClampField(res, "confidence", 0, 10)
        summary == ResolveSummary(clamped)
        enriched == Enrich(clamped, summary.text)
    IN IF summary.raised # "" THEN Outcome(summary.raised, JNull, res, FALSE)
       ELSE IF enriched.raised # "" THEN Outcome(enriched.raised, JNull, res, FALSE)
       ELSE Outcome("", JObj(<< <<"signal", JStr(ResolveSignal(res))>>,
                                <<"confidence", Get(clamped, "confidence")>>,
                                <<"summary", JStr(enriched.text)>> >>), res, FALSE)

\* normalize(res), lines 342-415. A dict is changed in place and returned.
normalize(res) ==
  IF res.t = "null"
  THEN Outcome("", JObj(<< <<"summary", JStr("None")>>,
                           <<"signal", JStr("NEUTRAL")>>,
                           <<"confidence", JNum(0)>> >>), res, FALSE)
  ELSE IF res.t # "obj"
  THEN Outcome("", JObj(<< <<"summary", JStr(PyText(res, FALSE))>> >>), res, FALSE)
  ELSE
    LET signalled == Put(res, "signal", JStr(ResolveSignal(res)))
        clamped == ClampField(ClampField(signalled, "confidence", 0, 10),
                              "sentiment_score", -10, 10)
        summary == ResolveSummary(clamped)
        enriched == Enrich(clamped, summary.text)
        final == Put(clamped, "summary", JStr(enriched.text))
    IN IF summary.raised # "" THEN Outcome(summary.raised, JNull, clamped, FALSE)
       ELSE IF enriched.raised # "" THEN Outcome(enriched.raised, JNull, clamped, FALSE)
       ELSE Outcome("", final, final, TRUE)

\* The dict call_model returns for an unrecovered error (base.py:169, 251,
\* 254) and run_resilient and gather's loop make for an exception
\* (orchestrator.py:313, 333).
ErrorReturn(text) ==
  JObj(<< <<"error", JStr(text)>>, <<"signal", JStr("NEUTRAL")>> >>)

\* The dict an agent's analyze returns from its except branch (quant.py:76),
\* and the Analyst's (analyst.py:147-153).
AgentErrorReturn(text) ==
  JObj(<< <<"signal", JStr("NEUTRAL")>>, <<"error", JStr(text)>> >>)
AnalystErrorReturn(text) ==
  JObj(<< <<"signal", JStr("NEUTRAL")>>, <<"error", JStr(text)>>,
          <<"summary", JStr("Analysis failed due to an error.")>> >>)

ConvergeText == "Failed to converge after tool calls"
NoKeyText == "API key not found for provider gemini"
ParseText == "Expecting value: line 1 column 1 (char 0)"
CrashText == "cannot buy: negative balance rejected"

\* Error texts a worker can end with: provider errors after retries or at
\* once, convergence, missing key, parse error, an exception in the worker.
WorkerErrorTexts ==
  {E401, E503, ETimeout, ConvergeText, NoKeyText, ParseText, CrashText}

WorkerErrors ==
  {ErrorReturn(text) : text \in WorkerErrorTexts}
    \cup {AgentErrorReturn(text) : text \in {CrashText, E503}}
    \cup {AnalystErrorReturn(text) : text \in {CrashText}}

LongSummary == "Momentum is fading while volume dries up near resistance."

\* Decoded provider answers (base.py:237-249): objects of several shapes and
\* values that are not objects.
Answers ==
  {JObj(<< <<"signal", JStr("BUY")>>, <<"confidence", JNum(12)>> >>),
   JObj(<< <<"approved", JBool(FALSE)>> >>),
   JObj(<< <<"approved", JBool(TRUE)>>, <<"signal", JStr("SELL")>> >>),
   JObj(<< <<"outlook", JStr("neutral-ish text")>> >>),
   JObj(<< <<"signal", JObj(<< <<"status", JStr("bearish")>> >>)>> >>),
   JObj(<< <<"signal", JList(<<JStr("strong buy")>>)>> >>),
   JObj(<< <<"action", JStr("sell")>>, <<"confidence", JNum(-3)>> >>),
   JObj(<< <<"signal", JStr("hold")>>, <<"confidence", JNum(0)>> >>),
   JObj(<< <<"signal", JStr("BULLISH")>>, <<"confidence", JNum(8)>> >>),
   JObj(<< <<"signal", JStr("BEARISH")>>, <<"confidence", JNum(4)>> >>),
   JObj(<< <<"signal", JStr("NEUTRAL")>>, <<"confidence", JNum(5)>> >>),
   JObj(<< <<"signal", JStr("BULLISH")>>, <<"confidence", JStr("high")>> >>),
   JObj(<< <<"signal", JStr("Bullish")>>, <<"confidence", JStr("0.7")>> >>),
   JObj(<< <<"signal", JStr("BEARISH")>>, <<"confidence", JNull>> >>),
   JObj(<< <<"signal", JStr("SELL")>>, <<"confidence", JList(<<JNum(9)>>)>> >>),
   JObj(<< <<"signal", JStr("BUY")>>, <<"sentiment_score", JNum(25)>> >>),
   JObj(<< <<"signal", JStr("BUY")>>, <<"details", JObj(<<>>)>> >>),
   JObj(<< <<"summary", JObj(<< <<"note", JStr("thin volume")>> >>)>> >>),
   JObj(<< <<"analysis", JObj(<< <<"text", JStr("range bound")>> >>)>> >>),
   JObj(<< <<"signal", JStr("BUY")>>, <<"summary", JStr("ok")>>,
           <<"key_findings", JList(<<JStr("a"), JStr("b"), JStr("c")>>)>> >>),
   JObj(<< <<"signal", JStr("BUY")>>, <<"summary", JStr("ok")>>,
           <<"red_flags", JStr("debt")>> >>),
   JObj(<< <<"signal", JStr("BUY")>>, <<"summary", JStr("ok")>>,
           <<"key_findings", JList(<<JObj(<< <<"point", JStr("a")>> >>)>>)>> >>),
   JObj(<< <<"signal", JStr("SELL")>>, <<"summary", JStr(LongSummary)>>,
           <<"key_findings", JList(<<JNum(10)>>)>> >>),
   JObj(<< <<"approved", JStr("yes")>>, <<"signal", JStr("SELL")>> >>),
   JObj(<< <<"approved", JBool(FALSE)>>, <<"action", JStr("buy")>> >>),
   JObj(<< <<"signal", JStr("")>>, <<"action", JStr("sell")>> >>),
   JObj(<< <<"signal", JObj(<< <<"status", JStr("")>>,
                                <<"action", JStr("buy")>> >>)>> >>),
   JObj(<< <<"action", JStr("hold")>>, <<"outlook", JStr("positive")>> >>),
   JObj(<<>>),
   JStr("plain text"),
   JNum(42),
   JBool(TRUE),
   JNull}

RawResults == WorkerErrors \cup Answers

\* predict_price_direction results (tools/ml_tools.py:66-84)
ChronosResults ==
  {JObj(<< <<"direction", JStr("UP")>> >>),
   JObj(<< <<"error", JStr("Insufficient price history for ML prediction")>>,
           <<"skipped", JBool(TRUE)>> >>)}

IdleNorm ==
  [pc |-> "idle", agent |-> 0, output |-> JNull, res |-> JNull,
   report |-> JNull, same |-> FALSE, raised |-> "", raw |-> JNull]

\* results[i] after gather (lines 325-335): the value worker i returned.
WorkerResult(i, v) ==
  /\ norm.pc = "idle"
  /\ norm' = [IdleNorm EXCEPT !.pc = "result", !.agent = i, !.output = v,
                              !.res = v]
  /\ UNCHANGED dec

\* analysis_results[name] = normalize(results[i]) (lines 417-421); an
\* exception leaves for the except of lines 534-537 and the run returns
\* {"error": str(e)}.
Normalize ==
  /\ norm.pc = "result"
  /\ LET n == normalize(norm.res)
     IN norm' = IF n.raised # ""
                THEN [norm EXCEPT !.pc = "run_error", !.raised = n.raised,
                                  !.res = n.res]
                ELSE [norm EXCEPT !.pc = "normalized", !.report = n.value,
                                  !.res = n.res, !.same = n.same]
  /\ UNCHANGED dec

\* Lines 426-456: the Chronos result is attached to the quant's report, then
\* raw_agent_map[name] = results[i] goes into the execution context.
Synthesize(chronos_result) ==
  /\ norm.pc = "normalized"
  /\ LET attach == /\ Agents[norm.agent] = "quant"
                   /\ Truthy(chronos_result)
                   /\ ~Truthy(Get(chronos_result, "skipped"))
         report == IF attach THEN Put(norm.report, "ml_signal", chronos_result)
                   ELSE norm.report
         res == IF norm.same THEN report ELSE norm.res
     IN norm' = [norm EXCEPT !.pc = "context", !.report = report, !.res = res,
                             !.raw = res]
  /\ UNCHANGED dec

\* The run goes on (or has returned its error); the slot takes the next result.
EndNormalize ==
  /\ norm.pc \in {"context", "run_error"}
  /\ norm' = IdleNorm
  /\ UNCHANGED dec

\* ------------------------------------------------------------------------
\* Executioner.decide: the consensus header (agents/executioner.py:21-39)
\* ------------------------------------------------------------------------
MaxReports == 3

Buckets == <<"BULLISH", "BEARISH", "NEUTRAL">>   \* the keys of signal_weights

\* Lines 26, 29-31.
Canonical(report) ==
  LET sig == Upper(PyText(IF Has(report, "signal") THEN Get(report, "signal")
                          ELSE JStr("NEUTRAL"), FALSE))
  IN IF Contains(sig, "BULL") \/ Contains(sig, "BUY") THEN "BULLISH"
     ELSE IF Contains(sig, "BEAR") \/ Contains(sig, "SELL") THEN "BEARISH"
     ELSE "NEUTRAL"

\* Lines 27-28: float(report.get("confidence", 0.5) or 0.5), clamped; float()
\* may raise.
Conf(report) ==
  LET given == IF Has(report, "confidence") THEN Get(report, "confidence")
               ELSE JNum(5)
      f == ToFloat(IF Truthy(given) THEN given ELSE JNum(5))
  IN [ok |-> f.ok, n |-> Clamp(0, 10, f.n)]

\* Lines 21-35: signal_weights after the loop over squad_analysis.
RECURSIVE SignalWeights(_)
SignalWeights(squad_analysis) ==
  IF Len(squad_analysis) = 0
  THEN [b \in {"BULLISH", "BEARISH", "NEUTRAL"} |-> 0]
  ELSE LET n == Len(squad_analysis)
           report == squad_analysis[n]
           before == SignalWeights(SubSeq(squad_analysis, 1, n - 1))
       IN IF report.t # "obj" THEN before
          ELSE [before EXCEPT ![Canonical(report)] = @ + Conf(report).n]

\* Fault of line 37: the sum is used as it is.
TotalWeight_NoGuard(signal_weights) ==
  signal_weights["BULLISH"] + signal_weights["BEARISH"] + signal_weights["NEUTRAL"]

\* Line 37: sum(signal_weights.values()) or 1.0
TotalWeight(signal_weights) ==
  LET total == signal_weights["BULLISH"] + signal_weights["BEARISH"]
                 + signal_weights["NEUTRAL"]
  IN IF total = 0 THEN 10 ELSE total

\* Line 38: max() returns the first key, in insertion order, of maximal weight.
ConsensusSignal(signal_weights) ==
  Buckets[CHOOSE i \in 1..Len(Buckets) :
            /\ \A j \in 1..Len(Buckets) :
                 signal_weights[Buckets[j]] <= signal_weights[Buckets[i]]
            /\ \A j \in 1..(i - 1) :
                 signal_weights[Buckets[j]] < signal_weights[Buckets[i]]]

IdleDec ==
  [pc |-> "idle", squad_analysis |-> <<>>, raised |-> "",
   signal_weights |-> [b \in {"BULLISH", "BEARISH", "NEUTRAL"} |-> 0],
   total_weight |-> 0, consensus_signal |-> "", consensus_strength |-> 0]

InitSynVars == norm = IdleNorm /\ dec = IdleDec

\* Raw results whose normalized reports make up the squads given to decide.
DecideRaw ==
  {JObj(<< <<"signal", JStr("BULLISH")>>, <<"confidence", JNum(8)>> >>),
   JObj(<< <<"signal", JStr("BEARISH")>>, <<"confidence", JNum(4)>> >>),
   JObj(<< <<"signal", JStr("NEUTRAL")>>, <<"confidence", JNum(5)>> >>),
   JObj(<< <<"action", JStr("sell")>>, <<"confidence", JNum(-3)>> >>),
   JObj(<< <<"outlook", JStr("neutral-ish text")>> >>),
   JObj(<< <<"signal", JStr("BULLISH")>>, <<"confidence", JStr("high")>> >>),
   JStr("plain text")}

DecideReports == {normalize(v).value : v \in DecideRaw}

Squads == UNION {[1..n -> DecideReports] : n \in 0..MaxReports}

\* decide(context) up to line 39: the weights, the consensus signal and the
\* strength (kept as the dividend over total_weight); a float() that raises
\* leaves for the except of line 124.
Decide(squad_analysis) ==
  /\ dec.pc = "idle"
  /\ dec' =
       IF \E i \in 1..Len(squad_analysis) :
            squad_analysis[i].t = "obj" /\ ~Conf(squad_analysis[i]).ok
       THEN [IdleDec EXCEPT !.pc = "decided", !.squad_analysis = squad_analysis,
                            !.raised = "ValueError"]
       ELSE LET signal_weights == SignalWeights(squad_analysis)
                consensus_signal == ConsensusSignal(signal_weights)
            IN [pc |-> "decided", squad_analysis |-> squad_analysis,
                raised |-> "", signal_weights |-> signal_weights,
                total_weight |-> TotalWeight(signal_weights),
                consensus_signal |-> consensus_signal,
                consensus_strength |-> signal_weights[consensus_signal]]
  /\ UNCHANGED norm

\* decide goes on to its prompt and returns.
DecideReturns ==
  /\ dec.pc = "decided"
  /\ dec' = IdleDec
  /\ UNCHANGED norm

\* ------------------------------------------------------------------------
\* Paper trading: execute_order (backend/services/paper_trading.py:64-211)
\* ------------------------------------------------------------------------
\* Money is counted in tenths of a dollar, prices in whole units of the
\* instrument's currency and exchange rates in tenths; average_cost is kept
\* to the whole currency unit.
MaxOrders == 2       \* orders recorded in the history of one portfolio

\* DEFAULT_PORTFOLIO (lines 15-19): cash 100000.0, no holdings, no history.
DEFAULT_PORTFOLIO == [cash |-> 1000000, holdings |-> <<>>, history |-> <<>>]

\* No execute_order call was made yet.
NoOrder ==
  [symbol |-> "", side |-> "", qty |-> 0, price |-> 0, outcome |-> "none"]

InitPaperVars == portfolio = DEFAULT_PORTFOLIO /\ order = NoOrder

\* ticker_data["meta"].get("currency", "USD") of the symbols explored.
CurrencyOf(symbol) == IF symbol = "SAP.DE" THEN "EUR" ELSE "USD"
\* Lines 83-85: fx_rate, with get_exchange_rate("EUR", "USD") at 1.1.
FxRate(currency) == IF currency = "USD" THEN 10 ELSE 11

OrderSymbols == {"aapl", "SAP.DE"}
OrderSides == {"buy", "SELL", "hold"}
OrderQtys == {10, 1000}
OrderPrices == {100, 110}

\* portfolio["holdings"].get(symbol, {"quantity": 0, "average_cost": 0.0, ...})
Position(p, symbol, currency) ==
  IF symbol \in DOMAIN p.holdings
  THEN p.holdings[symbol]
  ELSE [quantity |-> 0, average_cost |-> 0, currency |-> currency]

\* abs(n), min(a, b)
Abs(n) == IF n < 0 THEN -n ELSE n
Min(a, b) == IF a < b THEN a ELSE b

\* The quantity of the symbol held in portfolio p, 0 without a holding.
Held(p, symbol) ==
  IF symbol \in DOMAIN p.holdings THEN p.holdings[symbol].quantity ELSE 0

\* Lines 116-134: the average cost after a BUY.
BuyAverage(current_qty, current_avg, qty, price) ==
  LET new_qty == current_qty + qty
  IN IF current_qty >= 0
     THEN IF new_qty # 0
          THEN ((current_qty * current_avg) + (qty * price)) \div new_qty
          ELSE 0
     ELSE IF new_qty > 0 THEN price
          ELSE IF new_qty < 0 THEN current_avg ELSE 0

\* Lines 150-166: the average cost after a SELL.
SellAverage(current_qty, current_avg, qty, price) ==
  LET new_qty == current_qty - qty
  IN IF current_qty <= 0
     THEN IF new_qty # 0
          THEN ((Abs(current_qty) * current_avg) + (qty * price)) \div Abs(new_qty)
          ELSE 0
     ELSE IF new_qty < 0 THEN price
          ELSE IF new_qty > 0 THEN current_avg ELSE 0

\* Lines 107-112 and 142-146: the realized PnL of the order, or "None".
RealizedPnl(side_upper, current_qty, current_avg, qty, price, fx_rate) ==
  IF side_upper = "BUY" /\ current_qty < 0
  THEN [usd |-> (current_avg - price) * Min(Abs(current_qty), qty) * fx_rate]
  ELSE IF side_upper = "SELL" /\ current_qty > 0
  THEN [usd |-> (price - current_avg) * Min(current_qty, qty) * fx_rate]
  ELSE [none |-> TRUE]

\* Lines 178-189: the holdings after the order.
NewHoldings(holdings, symbol, new_qty, new_avg, currency) ==
  IF new_qty = 0
  THEN [k \in DOMAIN holdings \ {symbol} |-> holdings[k]]
  ELSE [k \in DOMAIN holdings \cup {symbol} |->
          IF k = symbol
          THEN [quantity |-> new_qty, average_cost |-> new_avg,
                currency |-> currency]
          ELSE holdings[k]]

\* Fault of line 139: a SELL books the order's native total, without the
\* exchange rate.
Traded_SellNative(p, symbol, side, qty, price) ==
  LET sym == Upper(symbol)
      currency == CurrencyOf(sym)
      fx_rate == FxRate(currency)
      total_cost_native == qty * price
      total_cost_usd == total_cost_native * fx_rate
      side_upper == Upper(side)
      current_pos == Position(p, sym, currency)
      current_qty == current_pos.quantity
      current_avg == current_pos.average_cost
      new_qty == IF side_upper = "BUY" THEN current_qty + qty ELSE current_qty - qty
      new_avg == IF side_upper = "BUY"
                 THEN BuyAverage(current_qty, current_avg, qty, price)
                 ELSE SellAverage(current_qty, current_avg, qty, price)
  IN [cash |-> IF side_upper = "BUY" THEN p.cash - total_cost_usd
               ELSE p.cash + total_cost_native * 10,
      holdings |-> NewHoldings(p.holdings, sym, new_qty, new_avg, currency),
      history |-> Append(p.history,
         [symbol |-> sym, side |-> side, qty |-> qty, price |-> price,
          currency |-> currency, fx_rate |-> fx_rate,
          total_native |-> total_cost_native, total_usd |-> total_cost_usd,
          realized_pnl_usd |->
            RealizedPnl(side_upper, current_qty, current_avg, qty, price,
                        fx_rate)])]

\* The portfolio that a BUY or SELL which raises nothing writes and returns
\* (lines 98-210).
Traded(p, symbol, side, qty, price) ==
  LET sym == Upper(symbol)
      currency == CurrencyOf(sym)
      fx_rate == FxRate(currency)
      total_cost_native == qty * price
      total_cost_usd == total_cost_native * fx_rate
      side_upper == Upper(side)
      current_pos == Position(p, sym, currency)
      current_qty == current_pos.quantity
      current_avg == current_pos.average_cost
      new_qty == IF side_upper = "BUY" THEN current_qty + qty ELSE current_qty - qty
      new_avg == IF side_upper = "BUY"
                 THEN BuyAverage(current_qty, current_avg, qty, price)
                 ELSE SellAverage(current_qty, current_avg, qty, price)
  IN [cash |-> IF side_upper = "BUY" THEN p.cash - total_cost_usd
               ELSE p.cash + total_cost_usd,
      holdings |-> NewHoldings(p.holdings, sym, new_qty, new_avg, currency),
      history |-> Append(p.history,
         [symbol |-> sym, side |-> side, qty |-> qty, price |-> price,
          currency |-> currency, fx_rate |-> fx_rate,
          total_native |-> total_cost_native, total_usd |-> total_cost_usd,
          realized_pnl_usd |->
            RealizedPnl(side_upper, current_qty, current_avg, qty, price,
                        fx_rate)])]

\* How execute_order ends: a BUY above the cash raises ValueError (line 100),
\* a side that is neither BUY nor SELL leaves new_qty unbound (line 178).
OrderOutcome(p, symbol, side, qty, price) ==
  LET total_cost_usd == qty * price * FxRate(CurrencyOf(Upper(symbol)))
  IN IF Upper(side) = "BUY"
     THEN IF p.cash < total_cost_usd
          THEN "ValueError: Insufficient buying power" ELSE "returned"
     ELSE IF Upper(side) = "SELL" THEN "returned" ELSE "UnboundLocalError"

\* execute_order(symbol, side, qty, price) on the stored portfolio: load,
\* trade, log, save.
execute_order(symbol, side, qty, price) ==
  /\ Len(portfolio.history) < MaxOrders
  /\ LET outcome == OrderOutcome(portfolio, symbol, side, qty, price)
     IN /\ order' = [symbol |-> symbol, side |-> side, qty |-> qty,
                      price |-> price, outcome |-> outcome]
        /\ portfolio' = IF outcome = "returned"
                        THEN Traded(portfolio, symbol, side, qty, price)
                        ELSE portfolio

\* ------------------------------------------------------------------------
\* The decoding of a terminal answer (agents/base.py:140-154, 230-249)
\* ------------------------------------------------------------------------
\* The character of s at position i, "" outside of s.
Ch(s, i) == IF i >= 1 /\ i <= Len(s) THEN SubSeq(s, i, i) ELSE ""
Whitespace == {" ", "\n"}

\* str.strip()
RECURSIVE LStrip(_)
LStrip(s) == IF Ch(s, 1) \in Whitespace THEN LStrip(SubSeq(s, 2, Len(s))) ELSE s
RECURSIVE RStrip(_)
RStrip(s) ==
  IF Ch(s, Len(s)) \in Whitespace THEN RStrip(SubSeq(s, 1, Len(s) - 1)) ELSE s
Strip(s) == RStrip(LStrip(s))

\* str.startswith(prefix)
StartsWith(s, prefix) ==
  Len(s) >= Len(prefix) /\ SubSeq(s, 1, Len(prefix)) = prefix
\* The positions at which pat occurs in s.
Occurrences(s, pat) ==
  {i \in 1..(Len(s) - Len(pat) + 1) : SubSeq(s, i, i + Len(pat) - 1) = pat}
SetMin(S) == CHOOSE x \in S : \A y \in S : x <= y
SetMax(S) == CHOOSE x \in S : \A y \in S : x >= y

\* The fences, with every backquote written as "~".
Fence == "~~~"
JsonFence == "~~~json"

\* Lines 149-154: the text after an opening fence was removed.
AfterFence(text) ==
  LET fences == Occurrences(text, Fence)
  IN Strip(IF fences # {} THEN SubSeq(text, 1, SetMax(fences) - 1) ELSE text)

\* BaseAgent._strip_markdown_fences (lines 141-154)
strip_markdown_fences(text) ==
  LET t == Strip(text)
  IN IF StartsWith(t, JsonFence) THEN AfterFence(SubSeq(t, Len(JsonFence) + 1, Len(t)))
     ELSE IF StartsWith(t, Fence) THEN AfterFence(SubSeq(t, Len(Fence) + 1, Len(t)))
     ELSE t

\* json.loads over the JSON texts explored: objects, arrays, strings without
\* escapes, non-negative integers and the three literals. A scan yields
\* the value and the position after it, or fails.
ScanFail == [ok |-> FALSE, v |-> JNull, pos |-> 0]
Scanned(v, pos) == [ok |-> TRUE, v |-> v, pos |-> pos]

RECURSIVE SkipWs(_, _)
SkipWs(s, i) == IF Ch(s, i) \in Whitespace THEN SkipWs(s, i + 1) ELSE i

RECURSIVE DigitsEnd(_, _)
DigitsEnd(s, i) == IF IsDigit(Ch(s, i)) THEN DigitsEnd(s, i + 1) ELSE i

\* A number: "0", or a run of digits that does not start with "0".
ScanNumber(s, i) ==
  IF Ch(s, i) = "0" THEN Scanned(JNum(0), i + 1)
  ELSE LET e == DigitsEnd(s, i)
       IN Scanned(JNum(10 * IntVal(SubSeq(s, i, e - 1))), e)

\* The position of the quote that closes the string entered before i, or 0
\* when the text or the line ends first.
RECURSIVE StringEnd(_, _)
StringEnd(s, i) ==
  IF i > Len(s) \/ Ch(s, i) = "\n" THEN 0
  ELSE IF Ch(s, i) = "\"" THEN i ELSE StringEnd(s, i + 1)

ScanString(s, i) ==
  LET e == StringEnd(s, i + 1)
  IN IF e = 0 THEN ScanFail ELSE Scanned(JStr(SubSeq(s, i + 1, e - 1)), e + 1)

ScanLiteral(s, i, word, v) ==
  IF i + Len(word) - 1 <= Len(s) /\ SubSeq(s, i, i + Len(word) - 1) = word
  THEN Scanned(v, i + Len(word))
  ELSE ScanFail

RECURSIVE ScanValue(_, _)
RECURSIVE ScanMembers(_, _, _)
RECURSIVE ScanElements(_, _, _)

\* The members of an object from position i on, added to acc; a repeated
\* key keeps its place and takes the later value.
ScanMembers(s, i, acc) ==
  IF Ch(s, i) # "\"" THEN ScanFail
  ELSE LET k == ScanString(s, i)
       IN IF ~k.ok THEN ScanFail
          ELSE LET c == SkipWs(s, k.pos)
               IN IF Ch(s, c) # ":" THEN ScanFail
                  ELSE LET v == ScanValue(s, SkipWs(s, c + 1))
                       IN IF ~v.ok THEN ScanFail
                          ELSE LET e == SkipWs(s, v.pos)
                                   acc2 == Put(acc, k.v.s, v.v)
                               IN IF Ch(s, e) = "}" THEN Scanned(acc2, e + 1)
                                  ELSE IF Ch(s, e) = ","
                                  THEN ScanMembers(s, SkipWs(s, e + 1), acc2)
                                  ELSE ScanFail

\* The elements of an array from position i on, appended to acc.
ScanElements(s, i, acc) ==
  LET v == ScanValue(s, i)
  IN IF ~v.ok THEN ScanFail
     ELSE LET e == SkipWs(s, v.pos)
              acc2 == Append(acc, v.v)
          IN IF Ch(s, e) = "]" THEN Scanned(JList(acc2), e + 1)
             ELSE IF Ch(s, e) = ","
             THEN ScanElements(s, SkipWs(s, e + 1), acc2)
             ELSE ScanFail

ScanValue(s, i) ==
  LET c == Ch(s, i)
  IN CASE c = "{" ->
            LET j == SkipWs(s, i + 1)
            IN IF Ch(s, j) = "}" THEN Scanned(JObj(<<>>), j + 1)
               ELSE ScanMembers(s, j, JObj(<<>>))
       [] c = "[" ->
            LET j == SkipWs(s, i + 1)
            IN IF Ch(s, j) = "]" THEN Scanned(JList(<<>>), j + 1)
               ELSE ScanElements(s, j, <<>>)
       [] c = "\"" -> ScanString(s, i)
       [] IsDigit(c) -> ScanNumber(s, i)
       [] c = "t" -> ScanLiteral(s, i, "true", JBool(TRUE))
       [] c = "f" -> ScanLiteral(s, i, "false", JBool(FALSE))
       [] c = "n" -> ScanLiteral(s, i, "null", JNull)
       [] OTHER -> ScanFail

\* json.loads(text): one value, with nothing but whitespace around it.
json_loads(text) ==
  LET r == ScanValue(text, SkipWs(text, 1))
  IN IF r.ok /\ SkipWs(text, r.pos) = Len(text) + 1 THEN r ELSE ScanFail

\* re.search(r"\{.*\}", text, re.DOTALL): from the first "{" to the last "}"
\* of the text, when the last "}" comes after the first "{".
BraceMatch(text) ==
  LET opens == Occurrences(text, "{")
      closes == Occurrences(text, "}")
  IN IF opens # {} /\ closes # {} /\ SetMax(closes) > SetMin(opens)
     THEN [found |-> TRUE, group |-> SubSeq(text, SetMin(opens), SetMax(closes))]
     ELSE [found |-> FALSE, group |-> ""]

\* Lines 237-244: the strict decoding, then the decoding of the brace match.
Decode(text) ==
  LET strict == json_loads(text)
      match == BraceMatch(text)
  IN IF strict.ok THEN strict
     ELSE IF match.found THEN json_loads(match.group) ELSE ScanFail

\* Lines 246-247: a list answers with its first element, or with {}.
Unlist(parsed) ==
  IF parsed.t = "list"
  THEN IF Len(parsed.elems) > 0 THEN parsed.elems[1] ELSE JObj(<<>>)
  ELSE parsed

\* Line 254 for a JSON call: the error return of call_model.
ParseErrorReturn ==
  JObj(<< <<"error", JStr("JSONDecodeError")>>, <<"signal", JStr("NEUTRAL")>> >>)

\* Lines 230-249: what call_model returns for the terminal answer response.
TerminalReturn(response, is_json) ==
  LET text == strip_markdown_fences(Strip(response))
  IN IF ~is_json THEN [outcome |-> "text", text |-> text, value |-> JStr(text)]
     ELSE LET parsed == Decode(text)
          IN IF parsed.ok
             THEN [outcome |-> "answer", text |-> text, value |-> Unlist(parsed.v)]
             ELSE [outcome |-> "parse_error", text |-> text,
                   value |-> ParseErrorReturn]

\* The terminal answers explored: a body, alone or inside fences or prose.
Bodies ==
  {"{\"signal\":\"BUY\"}",
   "{\"signal\": \"SELL\", \"confidence\": 7}",
   "[{\"signal\":\"BUY\"}, {\"signal\":\"SELL\"}]",
   "[]",
   "{}",
   "{\"a\": {\"b\": [1, true, null]}}",
   "{high}",
   "no json here",
   "{\"signal\":\"BUY\"",
   "{\"signal\":\"BUY\"} and {\"signal\":\"SELL\"}",
   "\"BUY\"",
   "42"}
Prefixes == {"", "~~~json\n", "~~~", "Here is the answer: ", " "}
Suffixes == {"", "\n~~~", " Hope this helps.", " (see {notes})"}
Responses == {p \o b \o x : p \in Prefixes, b \in Bodies, x \in Suffixes}

IdleAnswer ==
  [pc |-> "idle", response |-> "", is_json |-> TRUE, outcome |-> "none",
   text |-> "", value |-> JNull]

InitParseVars == ans = IdleAnswer

\* ------------------------------------------------------------------------
\* RiskOfficer.validate and the autonomous trade (agents/risk_officer.py,
\* orchestrator.py:137-148, 458-511)
\* ------------------------------------------------------------------------
\* str.split(sep) for a separator of one character
RECURSIVE Split(_, _)
Split(s, sep) ==
  IF \E i \in 1..Len(s) : Ch(s, i) = sep
  THEN LET i == SetMin({j \in 1..Len(s) : Ch(s, j) = sep})
       IN <<SubSeq(s, 1, i - 1)>> \o Split(SubSeq(s, i + 1, Len(s)), sep)
  ELSE <<s>>

RECURSIVE SumSeq(_)
SumSeq(q) == IF q = <<>> THEN 0 ELSE Head(q) + SumSeq(Tail(q))

\* trade_plan.get("action", ""), then str(...).upper() (lines 19, 160)
PlanAction(trade_plan) ==
  IF Has(trade_plan, "action")
  THEN Upper(PyText(Get(trade_plan, "action"), FALSE)) ELSE ""

\* Lines 21-28: entry, or else the mean of the numbers of entry_zone; a
\* part that is no number leaves entry at None.
PlanEntry(trade_plan) ==
  LET entry == Get(trade_plan, "entry")
      entry_zone_str == IF Has(trade_plan, "entry_zone")
                        THEN Get(trade_plan, "entry_zone") ELSE JStr("")
      pieces == Split(PyText(entry_zone_str, FALSE), "-")
      kept == SelectSeq([i \in 1..Len(pieces) |-> Strip(pieces[i])],
                        LAMBDA x : Len(x) > 0)
      parts == [i \in 1..Len(kept) |-> ParseFloat(kept[i])]
  IN IF entry.t = "null" /\ Truthy(entry_zone_str)
     THEN IF \E i \in 1..Len(parts) : ~parts[i].ok THEN JNull
          ELSE IF parts = <<>> THEN JNull
          ELSE JNum(SumSeq([i \in 1..Len(parts) |-> parts[i].n]) \div Len(parts))
     ELSE entry

\* One entry of the list of check results; the detail is the explanation
\* without its numbers.
CheckResult(check, passed, detail) ==
  JObj(<< <<"check", JStr(check)>>, <<"passed", JBool(passed)>>,
          <<"detail", JStr(detail)>> >>)

\* Lines 32-78: the stop loss has to be more than 2% away from the entry,
\* below it for a BUY and above it for a SELL.
StopLossSanity(action, entry, stop_loss) ==
  LET entry_f == ToFloat(entry)
      sl_f == ToFloat(stop_loss)
  IN IF entry.t = "null" \/ stop_loss.t = "null" \/ action \notin {"BUY", "SELL"}
     THEN <<>>
     ELSE IF ~entry_f.ok \/ ~sl_f.ok THEN <<>>
     ELSE IF action = "BUY"
     THEN IF entry_f.n > 0 /\ sl_f.n * 100 >= entry_f.n * 98
          THEN <<CheckResult("stop_loss_sanity", FALSE,
                             "Stop loss is on the wrong side of entry.")>>
          ELSE <<CheckResult("stop_loss_sanity", TRUE,
                             "Stop loss is correctly below entry for BUY.")>>
     ELSE IF entry_f.n > 0 /\ sl_f.n * 100 <= entry_f.n * 102
          THEN <<CheckResult("stop_loss_sanity", FALSE,
                             "Stop loss is on the wrong side of entry.")>>
          ELSE <<CheckResult("stop_loss_sanity", TRUE,
                             "Stop loss is correctly above entry for SELL.")>>

\* Lines 80-110: reward / risk of at least 2.
RiskRewardRatio(entry, stop_loss, target) ==
  LET entry_f == ToFloat(entry)
      sl_f == ToFloat(stop_loss)
      target_f == ToFloat(target)
      risk == Abs(entry_f.n - sl_f.n)
      reward == Abs(target_f.n - entry_f.n)
  IN IF entry.t = "null" \/ stop_loss.t = "null" \/ target.t = "null" THEN <<>>
     ELSE IF ~entry_f.ok \/ ~sl_f.ok \/ ~target_f.ok THEN <<>>
     ELSE IF risk <= 0 THEN <<>>
     ELSE IF reward < 2 * risk
          THEN <<CheckResult("risk_reward_ratio", FALSE,
                             "Risk:Reward ratio is below the required minimum of 2:1.")>>
          ELSE <<CheckResult("risk_reward_ratio", TRUE,
                             "Risk:Reward ratio meets the 2:1 minimum.")>>

\* Lines 112-151: the position is worth at most 10% of the portfolio, whose
\* total_value is its cash when the key is missing.
MaxPositionSize(trade_plan, entry, cash) ==
  LET given == Get(trade_plan, "position_value")
      qty == GetAny(trade_plan, <<"quantity", "qty", "size">>)
      qty_f == ToFloat(qty)
      entry_f == ToFloat(entry)
      position_value ==
        IF given.t # "null" THEN given
        ELSE IF qty.t # "null" /\ entry.t # "null" /\ qty_f.ok /\ entry_f.ok
             THEN JNum((qty_f.n * entry_f.n) \div 10)
             ELSE JNull
      position_value_f == ToFloat(position_value)
  IN IF position_value.t = "null" \/ ~position_value_f.ok THEN <<>>
     ELSE IF position_value_f.n * 10 > cash
          THEN <<CheckResult("max_position_size", FALSE,
                             "Position value exceeds 10% of total portfolio value.")>>
          ELSE <<CheckResult("max_position_size", TRUE,
                             "Position value is within 10% of total portfolio value.")>>

\* _run_deterministic_checks(trade_plan, portfolio), lines 10-153
ChecksFor(trade_plan, entry, stop_loss, cash) ==
  StopLossSanity(PlanAction(trade_plan), entry, stop_loss)
  \o RiskRewardRatio(entry, stop_loss, Get(trade_plan, "target"))
  \o MaxPositionSize(trade_plan, entry, cash)
run_deterministic_checks(trade_plan, cash) ==
  ChecksFor(trade_plan, PlanEntry(trade_plan), Get(trade_plan, "stop_loss"), cash)

\* failed_checks (line 175)
FailedChecks(check_results) ==
  SelectSeq(check_results, LAMBDA c : ~Get(c, "passed").b)

\* The returns of validate that need no provider (lines 163-183).
AutoApproved ==
  JObj(<< <<"approved", JBool(TRUE)>>,
          <<"reasoning", JStr("HOLD action requires no risk validation.")>>,
          <<"conclusion", JStr("APPROVED")>>,
          <<"deterministic_checks", JList(<<>>)>> >>)
VetoOf(failed_checks, check_results) ==
  JObj(<< <<"approved", JBool(FALSE)>>,
          <<"veto_reason",
            JStr(JoinText([i \in 1..Len(failed_checks) |->
                             Get(failed_checks[i], "detail").s], "; "))>>,
          <<"deterministic_checks", JList(check_results)>> >>)
Veto(check_results) == VetoOf(FailedChecks(check_results), check_results)

\* Lines 208-210: the checks are attached to a response that is a dict.
Attached(response, check_results) ==
  IF response.t = "obj"
  THEN Put(response, "deterministic_checks", JList(check_results))
  ELSE response

\* calculate_position_size(current_price, cash), lines 137-148: 5% of the
\* cash, at most $5000, in whole shares. cash is in tenths of a dollar.
calculate_position_size(current_price, cash) ==
  IF cash <= 0 \/ current_price <= 0 THEN 0
  ELSE LET cash_to_risk == IF cash < 1000000 THEN cash ELSE 1000000
       IN cash_to_risk \div (200 * current_price)

IdleAuto ==
  [pc |-> "idle", autonomous |-> FALSE, final_decision |-> JNull,
   current_price |-> 0, check_results |-> <<>>, provider_called |-> FALSE,
   risk_validation |-> JNull, execution_status |-> "None"]
InitRiskVars == auto = IdleAuto

\* final_decision as Executioner.decide may return it; numbers in tenths.
Plan(action, stop_loss, target, more) ==
  JObj(<< <<"action", JStr(action)>>, <<"stop_loss", stop_loss>>,
          <<"target", target>> >> \o more)
Plans ==
  { Plan("BUY", JNum(950), JNum(1150), << <<"entry", JNum(1000)>> >>),
    Plan("BUY", JNum(990), JNum(1150), << <<"entry", JNum(1000)>> >>),
    Plan("SELL", JNum(1050), JNum(950), << <<"entry", JNum(1000)>> >>),
    Plan("SELL", JNum(1050), JNum(850), << <<"entry_zone", JStr("99.0 - 101.0")>> >>),
    Plan("BUY", JNum(950), JNum(1150),
         << <<"entry", JNum(1000)>>, <<"position_value", JNum(2000000)>> >>),
    Plan("BUY", JNum(950), JNum(1150),
         << <<"entry_zone", JStr("99.0 - 101.0")>>, <<"qty", JNum(100)>> >>),
    Plan("BUY", JStr("tight"), JNum(1150), << <<"entry", JNum(1000)>> >>),
    Plan("buy", JNum(990), JNum(1150), << <<"entry", JNum(1000)>> >>),
    Plan("HOLD", JNull, JNull, <<>>) }

\* What call_model may return to validate: the officer's verdict as the
\* provider worded it, the error dict of a failed call, a value that is no
\* dict.
RiskResponses ==
  { JObj(<< <<"approved", JBool(TRUE)>>, <<"reasoning", JStr("Within limits.")>> >>),
    JObj(<< <<"approved", JBool(FALSE)>>, <<"veto_reason", JStr("Earnings tomorrow.")>> >>),
    JObj(<< <<"approved", JStr("false")>>, <<"veto_reason", JStr("Earnings tomorrow.")>> >>),
    JObj(<< <<"conclusion", JStr("APPROVED")>> >>),
    ErrorReturn("503 Service Unavailable"),
    JStr("APPROVED") }
Prices == {150, 6000}    \* current_price, in dollars

\* analyze_ticker has the Executioner's decision (line 458).
DecisionMade(autonomous, final_decision, current_price) ==
  /\ auto.pc = "idle"
  /\ Len(portfolio.history) < MaxOrders
  /\ auto' = [IdleAuto EXCEPT !.pc = "validate", !.autonomous = autonomous,
                              !.final_decision = final_decision,
                              !.current_price = current_price]
  /\ UNCHANGED paperVars

\* Lines 162-183 for the upper-cased action and the results of the checks.
Verdict(action, check_results) ==
  IF action = "HOLD"
  THEN [returned |-> TRUE, value |-> AutoApproved, check_results |-> <<>>]
  ELSE IF FailedChecks(check_results) # <<>>
  THEN [returned |-> TRUE, value |-> Veto(check_results),
        check_results |-> check_results]
  ELSE [returned |-> FALSE, value |-> JNull, check_results |-> check_results]

\* Fault of lines 175-183: the failed checks are dropped and the model is
\* asked.
validate_AdvisoryChecks(trade_plan, cash) ==
  Verdict(PlanAction(trade_plan),
          SelectSeq(run_deterministic_checks(trade_plan, cash),
                    LAMBDA c : Get(c, "passed").b))

\* RiskOfficer.validate up to its provider call (lines 155-183): the value
\* returned without a provider call, or the checks that all passed.
validate(trade_plan, cash) ==
  Verdict(PlanAction(trade_plan), run_deterministic_checks(trade_plan, cash))

\* await self.risk_officer.validate(risk_context), line 469, up to line 205.
RiskOfficerValidates ==
  /\ auto.pc = "validate"
  /\ \E v \in {validate(auto.final_decision, portfolio.cash)} :
       auto' = [auto EXCEPT !.pc = IF v.returned THEN "gate" ELSE "provider",
                            !.check_results = v.check_results,
                            !.risk_validation = v.value]
  /\ UNCHANGED paperVars

\* call_model returns to validate (lines 205-210).
RiskModelReturns(response) ==
  /\ auto.pc = "provider"
  /\ auto' = [auto EXCEPT !.pc = "gate", !.provider_called = TRUE,
                          !.risk_validation = Attached(response, auto.check_results)]
  /\ UNCHANGED paperVars

\* Lines 476-511, with the outcome of normalize(risk_validation), the
\* decision's action and the sized quantity. An exception outside the inner
\* try ends analyze_ticker in line 534.
AutonomousGate(ticker, shown, action, qty) ==
  LET risk_validation == IF auto.risk_validation.t = "obj"
                         THEN shown.res ELSE auto.risk_validation
      status ==
        IF shown.raised # "" THEN "Orchestration Error"
        ELSE IF ~(auto.autonomous /\ action \in {JStr("BUY"), JStr("SELL")})
        THEN "None"
        ELSE IF risk_validation.t # "obj" THEN "Orchestration Error"
        ELSE IF ~Truthy(Get(risk_validation, "approved")) THEN "VETOED"
        ELSE IF qty <= 0 THEN "Skipped"
        ELSE "execute_order"
  IN /\ auto' = [auto EXCEPT !.pc = "done", !.risk_validation = risk_validation,
                             !.execution_status = status]
     /\ IF status = "execute_order"
        THEN execute_order(ticker, action.s, qty, auto.current_price)
        ELSE UNCHANGED paperVars

\* Lines 472-511: the validation is normalized for the UI, then the
\* autonomous trade is made or not.
AutonomousTrading(ticker) ==
  /\ auto.pc = "gate"
  /\ AutonomousGate(ticker, normalize(auto.risk_validation),
                    Get(auto.final_decision, "action"),
                    calculate_position_size(auto.current_price, portfolio.cash))

\* analyze_ticker returns final_output.
EndAnalysis ==
  /\ auto.pc = "done"
  /\ auto' = IdleAuto
  /\ UNCHANGED paperVars

\* ------------------------------------------------------------------------
\* sync_portfolio_stops (services/paper_trading.py:214-369)
\* ------------------------------------------------------------------------
\* The callers of sync_portfolio_stops: monitor_portfolio_stops, every 60
\* seconds (main.py:65-79), and GET /api/paper/portfolio (main.py:300-303).
Syncers == {"monitor", "api"}
IdleSync == [pc |-> "idle", portfolio |-> DEFAULT_PORTFOLIO]
InitSyncVars == sync = [c \in Syncers |-> IdleSync]

\* Lines 218-233: the portfolio is loaded; without holdings it is returned,
\* else the call waits for the prices of the symbols held.
SyncLoads(c) ==
  /\ sync[c].pc = "idle"
  /\ sync' = [sync EXCEPT ![c] =
                [pc |-> IF DOMAIN portfolio.holdings = {} THEN "idle" ELSE "prices",
                 portfolio |-> portfolio]]
  /\ UNCHANGED paperVars

\* Lines 349-350: what the file holds after "if modified:
\* _save_portfolio(portfolio)", portfolio being the dict loaded in line 218
\* with its stops and trigger flags moved; cash, holdings' quantities and
\* history are those of the load.
Saved(stored, loaded, modified) == IF modified THEN loaded ELSE stored

\* Lines 234-369, after the prices have arrived: modified tells whether a
\* trailing stop moved or a target was flagged for these prices, triggered
\* whether the stop or the take profit of symbol was hit. The changes are
\* saved, then a triggered position that the file still holds is closed
\* with execute_order at the price fetched.
SyncResumes(c, modified, triggered, symbol, price) ==
  /\ sync[c].pc = "prices"
  /\ symbol \in DOMAIN sync[c].portfolio.holdings
  /\ LET current_p == Saved(portfolio, sync[c].portfolio, modified)
         closing == triggered /\ symbol \in DOMAIN current_p.holdings
         quantity == Held(current_p, symbol)
         side == IF quantity < 0 THEN "BUY" ELSE "SELL"
     IN /\ closing => Len(current_p.history) < MaxOrders
        /\ portfolio' = IF closing
                        THEN Traded(current_p, symbol, side, Abs(quantity), price)
                        ELSE current_p
        /\ order' = IF closing
                    THEN [symbol |-> symbol, side |-> side, qty |-> Abs(quantity),
                          price |-> price, outcome |-> "returned"]
                    ELSE order
  /\ sync' = [sync EXCEPT ![c] = IdleSync]

\* ------------------------------------------------------------------------
\* Analyst.analyze and its file cache (agents/analyst.py)
\* ------------------------------------------------------------------------
MaxHours == 4                \* time.time() as the Analyst reads it, in hours
NEWS_FALLBACK_TTL == 3       \* _NEWS_FALLBACK_TTL, in hours

\* _TICKER_RE: one to twenty characters out of A-Z, 0-9, '.' and '-'
TickerChars == UpperCase \o DigitChars \o ".-"
ValidTicker(ticker) ==
  /\ Len(ticker) >= 1 /\ Len(ticker) <= 20
  /\ \A i \in 1..Len(ticker) : Contains(TickerChars, Ch(ticker, i))

\* Lines 57-87 for a data package with document text (hash 'h1'), with news
\* only, or with neither: doc_hash, or "" when analyze returns in line 82.
DocHash(package) ==
  CASE package = "document" -> "h1"
    [] package = "news" -> "news_fallback"
    [] OTHER -> ""

NoDocuments ==
  JObj(<< <<"signal", JStr("NEUTRAL")>>, <<"confidence", JNum(0)>>,
          <<"summary", JStr("No financial documents or news available for analysis.")>>,
          <<"details", JStr("Upload documents or ensure web search is enabled for analysis.")>> >>)
InvalidTicker(ticker) ==
  JObj(<< <<"signal", JStr("NEUTRAL")>>,
          <<"error", JStr("Invalid ticker format: " \o ticker)>> >>)

\* {k: v for k, v in entry.items() if not k.startswith("_")}
PublicItems(entry) ==
  JObj(SelectSeq(entry.items, LAMBDA kv : ~StartsWith(kv[1], "_")))

IdleAnalyst == [pc |-> "idle", cache_key |-> "", doc_hash |-> "",
                result |-> JNull, hit |-> FALSE]
InitAnalystVars ==
  an = [cache |-> <<>>, now |-> 0, call |-> IdleAnalyst]

\* Lines 140-143: the cache after the analysis has been stored, with its
\* expiry for the news fallback.
Stored(entries, cache_key, doc_hash, analysis, now) ==
  [k \in DOMAIN entries \cup {cache_key} |->
     IF k # cache_key THEN entries[k]
     ELSE IF doc_hash = "news_fallback" /\ analysis.t = "obj"
          THEN Put(analysis, "_expires_at", JNum(now + NEWS_FALLBACK_TTL))
          ELSE analysis]

\* Analyst.analyze(ticker, horizon, data_package) up to its return or its
\* model call (lines 53-111).
AnalystAnalyze(ticker, horizon, package) ==
  LET t == Strip(Upper(ticker))
      doc_hash == DocHash(package)
      cache_key == t \o "_" \o doc_hash \o "_" \o horizon
      returns(value, hit) ==
        [pc |-> "done", cache_key |-> cache_key, doc_hash |-> doc_hash,
         result |-> value, hit |-> hit]
      entry == an.cache[cache_key]
      expires_at == IF entry.t = "obj" /\ Has(entry, "_expires_at")
                    THEN Get(entry, "_expires_at").n ELSE 0
      without == [k \in DOMAIN an.cache \ {cache_key} |-> an.cache[k]]
      misses == [pc |-> "model", cache_key |-> cache_key, doc_hash |-> doc_hash,
                 result |-> JNull, hit |-> FALSE]
  IN /\ an.call.pc = "idle"
     /\ IF ~ValidTicker(t)
        THEN an' = [an EXCEPT !.call = returns(InvalidTicker(t), FALSE)]
        ELSE IF doc_hash = ""
        THEN an' = [an EXCEPT !.call = returns(NoDocuments, FALSE)]
        ELSE IF cache_key \notin DOMAIN an.cache
        THEN an' = [an EXCEPT !.call = misses]
        ELSE IF doc_hash # "news_fallback"
        THEN an' = [an EXCEPT !.call = returns(entry, TRUE)]
        ELSE IF an.now > expires_at
        THEN an' = [an EXCEPT !.call = misses, !.cache = without]
        ELSE an' = [an EXCEPT !.call = returns(PublicItems(entry), TRUE)]

\* call_model has returned (line 136); the analysis is stored and returned
\* (lines 140-145). The cache dict is the one loaded in line 91, the expired
\* entry removed.
AnalystModelReturns(analysis) ==
  /\ an.call.pc = "model"
  /\ an' = [an EXCEPT
              !.cache = Stored(an.cache, an.call.cache_key, an.call.doc_hash,
                               analysis, an.now),
              !.call = [an.call EXCEPT
                          !.pc = "done",
                          !.result =
                            IF an.call.doc_hash = "news_fallback" /\ analysis.t = "obj"
                            THEN Put(analysis, "_expires_at",
                                     JNum(an.now + NEWS_FALLBACK_TTL))
                            ELSE analysis]]

\* run_resilient has the result of analyze.
AnalystDone ==
  /\ an.call.pc = "done"
  /\ an' = [an EXCEPT !.call = IdleAnalyst]

\* An hour passes.
AnalystTick ==
  /\ an.now < MaxHours
  /\ an' = [an EXCEPT !.now = an.now + 1]

\* What call_model returns to the Analyst: an analysis, or the error dict of
\* a call that failed (base.py:252-254).
Analyses ==
  { JObj(<< <<"signal", JStr("BULLISH")>>, <<"summary", JStr("Strong filing.")>> >>),
    ErrorReturn("503 Service Unavailable") }

\* The provider's terminal answer arrives and call_model returns.
ProviderAnswersText(response, is_json) ==
  /\ ans.pc = "idle"
  /\ ans' = LET r == TerminalReturn(response, is_json)
            IN [pc |-> "done", response |-> response, is_json |-> is_json,
                outcome |-> r.outcome, text |-> r.text, value |-> r.value]

\* The caller has consumed the return value.
AnswerConsumed == ans.pc = "done" /\ ans' = IdleAnswer

\* ------------------------------------------------------------------------
\* Specifications
\* ------------------------------------------------------------------------
\* One caller after the other calls execute_tool; the orchestrator's direct
\* call may come at any time after a worker's calls.
NextKey ==
  \/ /\ \E inp \in KeyInputs, context \in Contexts \cup {NoneContext} :
          execute_tool(Worker, inp[1], inp[2], context)
     /\ UNCHANGED <<agentVars, orchVars, ctxVars, synVars, regVars, paperVars,
                    parseVars, riskVars, syncVars, analystVars>>
  \/ /\ \E data_package \in Contexts : AttachChronos(Worker, data_package)
     /\ UNCHANGED <<agentVars, orchVars, ctxVars, synVars, regVars, paperVars,
                    parseVars, riskVars, syncVars, analystVars>>
  \/ /\ CallableReturns(Worker)
     /\ UNCHANGED <<agentVars, orchVars, ctxVars, synVars, regVars, paperVars,
                    parseVars, riskVars, syncVars, analystVars>>
  \/ /\ FailCall(Worker)
     /\ UNCHANGED <<agentVars, orchVars, ctxVars, synVars, regVars, paperVars,
                    parseVars, riskVars, syncVars, analystVars>>
  \/ /\ ReturnCall(Worker)
     /\ UNCHANGED <<agentVars, orchVars, ctxVars, synVars, regVars, paperVars,
                    parseVars, riskVars, syncVars, analystVars>>

InitKey == InitToolVars /\ InitAgentVars /\ InitOrchVars /\ InitCtxVars /\ InitSynVars
    /\ InitRegVars /\ InitPaperVars /\ InitParseVars /\ InitRiskVars /\ InitSyncVars /\ InitAnalystVars
SpecKey == InitKey /\ [][NextKey]_vars

\* The registry changes while views list their schemas.
NextView ==
  \/ /\ \E r \in RegisterInputs : register_tool(r[1], r[2], r[3])
     /\ UNCHANGED <<agentVars, orchVars, ctxVars, synVars, paperVars, parseVars, riskVars, syncVars, analystVars>>
  \/ /\ \E v \in Views : get_tool_schemas(v)
     /\ UNCHANGED <<agentVars, orchVars, ctxVars, synVars, paperVars, parseVars, riskVars, syncVars, analystVars>>

InitView == InitToolVars /\ InitAgentVars /\ InitOrchVars /\ InitCtxVars /\ InitSynVars
    /\ InitRegVars /\ InitPaperVars /\ InitParseVars /\ InitRiskVars /\ InitSyncVars /\ InitAnalystVars
SpecView == InitView /\ [][NextView]_vars

\* Orders placed one after the other on one stored portfolio.
NextPaper ==
  /\ \E symbol \in OrderSymbols, side \in OrderSides, qty \in OrderQtys,
        price \in OrderPrices : execute_order(symbol, side, qty, price)
  /\ UNCHANGED <<toolVars, agentVars, orchVars, ctxVars, synVars, regVars,
                 parseVars, riskVars, syncVars, analystVars>>

InitPaper == InitToolVars /\ InitAgentVars /\ InitOrchVars /\ InitCtxVars /\ InitSynVars
    /\ InitRegVars /\ InitPaperVars /\ InitParseVars /\ InitRiskVars /\ InitSyncVars /\ InitAnalystVars
SpecPaper == InitPaper /\ [][NextPaper]_vars

\* analyze_ticker runs made one after the other, from the Executioner's
\* decision to the autonomous trade.
NextRisk ==
  \/ \E autonomous \in BOOLEAN, final_decision \in Plans, current_price \in Prices :
        DecisionMade(autonomous, final_decision, current_price) /\ UNCHANGED <<toolVars, agentVars, orchVars, ctxVars, synVars, regVars, parseVars, syncVars, analystVars>>
  \/ RiskOfficerValidates /\ UNCHANGED <<toolVars, agentVars, orchVars, ctxVars, synVars, regVars, parseVars, syncVars, analystVars>>
  \/ \E response \in RiskResponses :
        RiskModelReturns(response) /\ UNCHANGED <<toolVars, agentVars, orchVars, ctxVars, synVars, regVars, parseVars, syncVars, analystVars>>
  \/ AutonomousTrading("AAPL") /\ UNCHANGED <<toolVars, agentVars, orchVars, ctxVars, synVars, regVars, parseVars, syncVars, analystVars>>
  \/ EndAnalysis /\ UNCHANGED <<toolVars, agentVars, orchVars, ctxVars, synVars, regVars, parseVars, syncVars, analystVars>>

InitRisk == InitToolVars /\ InitAgentVars /\ InitOrchVars /\ InitCtxVars /\ InitSynVars
    /\ InitRegVars /\ InitPaperVars /\ InitParseVars /\ InitRiskVars /\ InitSyncVars /\ InitAnalystVars
SpecRisk == InitRisk /\ [][NextRisk]_vars

\* Orders placed through POST /api/paper/order or by analyze_ticker, in
\* threads of their own, while sync_portfolio_stops calls are in flight.
NextSync ==
  \/ \E c \in Syncers :
        SyncLoads(c) /\ UNCHANGED <<toolVars, agentVars, orchVars, ctxVars, synVars, regVars, parseVars, riskVars, analystVars>>
  \/ \E c \in Syncers, modified \in BOOLEAN, triggered \in BOOLEAN,
        price \in OrderPrices :
        SyncResumes(c, modified, triggered, "AAPL", price) /\ UNCHANGED <<toolVars, agentVars, orchVars, ctxVars, synVars, regVars, parseVars, riskVars, analystVars>>
  \/ \E side \in {"BUY", "SELL"}, price \in OrderPrices :
        /\ execute_order("AAPL", side, 10, price)
        /\ UNCHANGED <<toolVars, agentVars, orchVars, ctxVars, synVars, regVars, parseVars, riskVars, syncVars, analystVars>>

InitSync == InitToolVars /\ InitAgentVars /\ InitOrchVars /\ InitCtxVars /\ InitSynVars
    /\ InitRegVars /\ InitPaperVars /\ InitParseVars /\ InitRiskVars /\ InitSyncVars /\ InitAnalystVars
SpecSync == InitSync /\ [][NextSync]_vars

\* Analyses of the one Analyst, made one after the other as hours pass.
NextAnalyst ==
  \/ \E ticker \in {"aapl ", "$AAPL"}, package \in {"document", "news", "nothing"} :
        AnalystAnalyze(ticker, "Swing", package) /\ UNCHANGED <<toolVars, agentVars, orchVars, ctxVars, synVars, regVars, paperVars, parseVars, riskVars, syncVars>>
  \/ \E analysis \in Analyses :
        AnalystModelReturns(analysis) /\ UNCHANGED <<toolVars, agentVars, orchVars, ctxVars, synVars, regVars, paperVars, parseVars, riskVars, syncVars>>
  \/ AnalystDone /\ UNCHANGED <<toolVars, agentVars, orchVars, ctxVars, synVars, regVars, paperVars, parseVars, riskVars, syncVars>>
  \/ AnalystTick /\ UNCHANGED <<toolVars, agentVars, orchVars, ctxVars, synVars, regVars, paperVars, parseVars, riskVars, syncVars>>

InitAnalyst == InitToolVars /\ InitAgentVars /\ InitOrchVars /\ InitCtxVars /\ InitSynVars
    /\ InitRegVars /\ InitPaperVars /\ InitParseVars /\ InitRiskVars /\ InitSyncVars /\ InitAnalystVars
SpecAnalyst == InitAnalyst /\ [][NextAnalyst]_vars

\* Terminal answers of a provider, decoded one after the other.
NextParse ==
  \/ /\ \E response \in Responses, is_json \in BOOLEAN :
          ProviderAnswersText(response, is_json)
     /\ UNCHANGED <<toolVars, agentVars, orchVars, ctxVars, synVars, regVars,
                    paperVars, riskVars, syncVars, analystVars>>
  \/ /\ AnswerConsumed
     /\ UNCHANGED <<toolVars, agentVars, orchVars, ctxVars, synVars, regVars,
                    paperVars, riskVars, syncVars, analystVars>>

InitParse == InitToolVars /\ InitAgentVars /\ InitOrchVars /\ InitCtxVars /\ InitSynVars
    /\ InitRegVars /\ InitPaperVars /\ InitParseVars /\ InitRiskVars /\ InitSyncVars /\ InitAnalystVars
SpecParse == InitParse /\ [][NextParse]_vars

\* Callers of execute_tool, running concurrently against the shared cache.
NextTools ==
  \/ \E t \in Tasks, inp \in CallInputs :
        BeginCall(t, inp[1], inp[2]) /\ UNCHANGED <<agentVars, orchVars, ctxVars, synVars, regVars, paperVars, parseVars, riskVars, syncVars, analystVars>>
  \/ \E t \in Tasks, val \in ToolResults :
        FinishCall(t, val) /\ UNCHANGED <<agentVars, orchVars, ctxVars, synVars, regVars, paperVars, parseVars, riskVars, syncVars, analystVars>>
  \/ \E t \in Tasks : FailCall(t) /\ UNCHANGED <<agentVars, orchVars, ctxVars, synVars, regVars, paperVars, parseVars, riskVars, syncVars, analystVars>>
  \/ \E t \in Tasks : ReturnCall(t) /\ UNCHANGED <<agentVars, orchVars, ctxVars, synVars, regVars, paperVars, parseVars, riskVars, syncVars, analystVars>>
  \/ clear_cache /\ UNCHANGED <<agentVars, orchVars, ctxVars, synVars, regVars, paperVars, parseVars, riskVars, syncVars, analystVars>>
  \/ Tick /\ UNCHANGED <<agentVars, orchVars, ctxVars, synVars, regVars, paperVars, parseVars, riskVars, syncVars, analystVars>>

InitTools == InitToolVars /\ InitAgentVars /\ InitOrchVars /\ InitCtxVars /\ InitSynVars
    /\ InitRegVars /\ InitPaperVars /\ InitParseVars /\ InitRiskVars /\ InitSyncVars /\ InitAnalystVars
SpecTools == InitTools /\ [][NextTools]_vars

\* One agent running call_model, its tool calls going to the shared manager.
NextAgent ==
  \/ \E has_key \in BOOLEAN, is_json \in BOOLEAN, tm \in BOOLEAN :
        CallModel(has_key, is_json, tm) /\ UNCHANGED <<orchVars, ctxVars, synVars, regVars, paperVars, parseVars, riskVars, syncVars, analystVars>>
  \/ Wake /\ UNCHANGED <<orchVars, ctxVars, synVars, regVars, paperVars, parseVars, riskVars, syncVars, analystVars>>
  \/ \E tool_calls \in ToolCallLists :
        ProviderRequestsTools(tool_calls) /\ UNCHANGED <<orchVars, ctxVars, synVars, regVars, paperVars, parseVars, riskVars, syncVars, analystVars>>
  \/ \E answer \in TerminalAnswers : ProviderAnswers(answer) /\ UNCHANGED <<orchVars, ctxVars, synVars, regVars, paperVars, parseVars, riskVars, syncVars, analystVars>>
  \/ NoToolManager /\ UNCHANGED <<orchVars, ctxVars, synVars, regVars, paperVars, parseVars, riskVars, syncVars, analystVars>>
  \/ ExecuteTool /\ UNCHANGED <<orchVars, ctxVars, synVars, regVars, paperVars, parseVars, riskVars, syncVars, analystVars>>
  \/ \E val \in ToolResults : ToolReturns(val) /\ UNCHANGED <<orchVars, ctxVars, synVars, regVars, paperVars, parseVars, riskVars, syncVars, analystVars>>
  \/ ToolFails /\ UNCHANGED <<orchVars, ctxVars, synVars, regVars, paperVars, parseVars, riskVars, syncVars, analystVars>>
  \/ MergeResult /\ UNCHANGED <<orchVars, ctxVars, synVars, regVars, paperVars, parseVars, riskVars, syncVars, analystVars>>
  \/ ToolRaises /\ UNCHANGED <<orchVars, ctxVars, synVars, regVars, paperVars, parseVars, riskVars, syncVars, analystVars>>
  \/ NextRound /\ UNCHANGED <<orchVars, ctxVars, synVars, regVars, paperVars, parseVars, riskVars, syncVars, analystVars>>
  \/ ReturnModel /\ UNCHANGED <<orchVars, ctxVars, synVars, regVars, paperVars, parseVars, riskVars, syncVars, analystVars>>
  \/ \E text \in ErrorTexts, jitter \in Jitters :
        ProviderRaises(text, jitter) /\ UNCHANGED <<orchVars, ctxVars, synVars, regVars, paperVars, parseVars, riskVars, syncVars, analystVars>>

InitAgent == InitToolVars /\ InitAgentVars /\ InitOrchVars /\ InitCtxVars /\ InitSynVars
    /\ InitRegVars /\ InitPaperVars /\ InitParseVars /\ InitRiskVars /\ InitSyncVars /\ InitAnalystVars
SpecAgent == InitAgent /\ [][NextAgent]_vars
\* The event loop resumes every coroutine that can go on, and every provider
\* call and tool call returns or raises.
SpecAgentLive == InitAgent /\ [][NextAgent]_vars /\ WF_vars(NextAgent)

\* The Quant tasks of analyze_ticker runs in flight on one Orchestrator.
NextCtx ==
  \/ \E r \in Runs, has_history \in BOOLEAN :
        QuantAnalyze(r, has_history)
          /\ UNCHANGED <<toolVars, agentVars, orchVars, synVars, regVars, paperVars, parseVars, riskVars, syncVars, analystVars>>
  \/ \E r \in Runs :
        QuantToolCall(r) /\ UNCHANGED <<toolVars, agentVars, orchVars, synVars, regVars, paperVars, parseVars, riskVars, syncVars, analystVars>>
  \/ \E r \in Runs :
        QuantReturns(r) /\ UNCHANGED <<toolVars, agentVars, orchVars, synVars, regVars, paperVars, parseVars, riskVars, syncVars, analystVars>>
  \/ \E r \in Runs :
        QuantDone(r) /\ UNCHANGED <<toolVars, agentVars, orchVars, synVars, regVars, paperVars, parseVars, riskVars, syncVars, analystVars>>

InitCtx ==
  InitToolVars /\ InitAgentVars /\ InitOrchVars /\ InitCtxVars /\ InitSynVars
    /\ InitRegVars /\ InitPaperVars /\ InitParseVars /\ InitRiskVars /\ InitSyncVars /\ InitAnalystVars
SpecCtx == InitCtx /\ [][NextCtx]_vars

\* The results of the workers, one at a time, on their way through
\* normalize into the execution context.
NextNorm ==
  \/ \E i \in 1..NumAgents, v \in RawResults :
        WorkerResult(i, v) /\ UNCHANGED <<toolVars, agentVars, orchVars, ctxVars, regVars, paperVars, parseVars, riskVars, syncVars, analystVars>>
  \/ Normalize /\ UNCHANGED <<toolVars, agentVars, orchVars, ctxVars, regVars, paperVars, parseVars, riskVars, syncVars, analystVars>>
  \/ \E chronos_result \in ChronosResults :
        Synthesize(chronos_result)
          /\ UNCHANGED <<toolVars, agentVars, orchVars, ctxVars, regVars, paperVars, parseVars, riskVars, syncVars, analystVars>>
  \/ EndNormalize /\ UNCHANGED <<toolVars, agentVars, orchVars, ctxVars, regVars, paperVars, parseVars, riskVars, syncVars, analystVars>>

InitNorm ==
  InitToolVars /\ InitAgentVars /\ InitOrchVars /\ InitCtxVars /\ InitSynVars
    /\ InitRegVars /\ InitPaperVars /\ InitParseVars /\ InitRiskVars /\ InitSyncVars /\ InitAnalystVars
SpecNorm == InitNorm /\ [][NextNorm]_vars

\* Executioner.decide applied to squads of normalized reports.
NextDecide ==
  \/ \E squad_analysis \in Squads :
        Decide(squad_analysis)
          /\ UNCHANGED <<toolVars, agentVars, orchVars, ctxVars, regVars, paperVars, parseVars, riskVars, syncVars, analystVars>>
  \/ DecideReturns /\ UNCHANGED <<toolVars, agentVars, orchVars, ctxVars, regVars, paperVars, parseVars, riskVars, syncVars, analystVars>>

InitDecide ==
  InitToolVars /\ InitAgentVars /\ InitOrchVars /\ InitCtxVars /\ InitSynVars
    /\ InitRegVars /\ InitPaperVars /\ InitParseVars /\ InitRiskVars /\ InitSyncVars /\ InitAnalystVars
SpecDecide == InitDecide /\ [][NextDecide]_vars

\* No analyze_ticker run other than r is in flight.
Alone(r) ==
  \A q \in Runs \ {r} :
    results[q] = <<>> /\ \A i \in 1..NumAgents : wk[q][i] = "new"

\* analyze_ticker runs made one after the other, with the outcome of every
\* agent.
NextOrch ==
  \/ \E r \in Runs, i \in 1..NumAgents :
        Alone(r) /\ Enter(r, i) /\ UNCHANGED <<toolVars, agentVars, ctxVars, synVars, regVars, paperVars, parseVars, riskVars, syncVars, analystVars>>
  \/ \E r \in Runs, i \in 1..NumAgents :
        AnalyzeReturns(r, i) /\ UNCHANGED <<toolVars, agentVars, ctxVars, synVars, regVars, paperVars, parseVars, riskVars, syncVars, analystVars>>
  \/ \E r \in Runs, i \in 1..NumAgents :
        AnalyzeRaises(r, i) /\ UNCHANGED <<toolVars, agentVars, ctxVars, synVars, regVars, paperVars, parseVars, riskVars, syncVars, analystVars>>
  \/ \E r \in Runs : Gather(r) /\ UNCHANGED <<toolVars, agentVars, ctxVars, synVars, regVars, paperVars, parseVars, riskVars, syncVars, analystVars>>
  \/ \E r \in Runs : EndRun(r) /\ UNCHANGED <<toolVars, agentVars, ctxVars, synVars, regVars, paperVars, parseVars, riskVars, syncVars, analystVars>>

InitOrch == InitToolVars /\ InitAgentVars /\ InitOrchVars /\ InitCtxVars /\ InitSynVars
    /\ InitRegVars /\ InitPaperVars /\ InitParseVars /\ InitRiskVars /\ InitSyncVars /\ InitAnalystVars
SpecOrch == InitOrch /\ [][NextOrch]_vars

\* All five tasks of run r have left the gated section: the run goes on to
\* its end and the next analyze_ticker call may begin.
GateEndRun(r) ==
  /\ \A i \in 1..NumAgents : wk[r][i] = "left"
  /\ wk' = [wk EXCEPT ![r] = [i \in 1..NumAgents |-> "new"]]
  /\ UNCHANGED <<sem, waiters, results, regVars, paperVars, parseVars, riskVars, syncVars, analystVars>>

\* analyze_ticker runs in flight at the same time on one Orchestrator, all
\* sharing its semaphore.
NextGate ==
  \/ \E r \in Runs, i \in 1..NumAgents :
        Enter(r, i) /\ UNCHANGED <<toolVars, agentVars, ctxVars, synVars, regVars, paperVars, parseVars, riskVars, syncVars, analystVars>>
  \/ \E r \in Runs, i \in 1..NumAgents :
        Leave(r, i) /\ UNCHANGED <<toolVars, agentVars, ctxVars, synVars, regVars, paperVars, parseVars, riskVars, syncVars, analystVars>>
  \/ \E r \in Runs : GateEndRun(r) /\ UNCHANGED <<toolVars, agentVars, ctxVars, synVars, regVars, paperVars, parseVars, riskVars, syncVars, analystVars>>

InitGate == InitToolVars /\ InitAgentVars /\ InitOrchVars /\ InitCtxVars /\ InitSynVars
    /\ InitRegVars /\ InitPaperVars /\ InitParseVars /\ InitRiskVars /\ InitSyncVars /\ InitAnalystVars
SpecGate == InitGate /\ [][NextGate]_vars
\* asyncio.gather(*agent_tasks) of run r (line 325): the five tasks are
\* queued on the event loop one after the other and run up to their first
\* suspension before any other coroutine goes on, so the five Enter steps
\* of a run happen without a step of another task in between.
StartRun(r) ==
  LET free == IF waiters = <<>> THEN sem ELSE 0
      n == IF free < NumAgents THEN free ELSE NumAgents
  IN /\ results[r] = <<>>
     /\ \A i \in 1..NumAgents : wk[r][i] = "new"
     /\ sem' = sem - n
     /\ wk' = [wk EXCEPT ![r] =
                 [i \in 1..NumAgents |-> IF i <= n THEN "inside" ELSE "waiting"]]
     /\ waiters' = waiters \o [k \in 1..(NumAgents - n) |-> <<r, n + k>>]
     /\ UNCHANGED results

\* analyze_ticker runs in flight at the same time, as the event loop
\* schedules them.
NextGateLive ==
  \/ \E r \in Runs :
        StartRun(r) /\ UNCHANGED <<toolVars, agentVars, ctxVars, synVars, regVars, paperVars, parseVars, riskVars, syncVars, analystVars>>
  \/ \E r \in Runs, i \in 1..NumAgents :
        Leave(r, i) /\ UNCHANGED <<toolVars, agentVars, ctxVars, synVars, regVars, paperVars, parseVars, riskVars, syncVars, analystVars>>
  \/ \E r \in Runs : GateEndRun(r) /\ UNCHANGED <<toolVars, agentVars, ctxVars, synVars, regVars, paperVars, parseVars, riskVars, syncVars, analystVars>>

\* While tasks are inside the gated section, the agent.analyze call of one
\* of them returns or raises.
SpecGateLive ==
  /\ InitGate /\ [][NextGateLive]_vars
  /\ WF_vars(\E r \in Runs, i \in 1..NumAgents :
               Leave(r, i) /\ UNCHANGED <<toolVars, agentVars, ctxVars, synVars, regVars, paperVars, parseVars, riskVars, syncVars, analystVars>>)

TypeTools ==
  /\ clock \in 0..MaxTime
  /\ \A t \in Tasks : task[t].pc \in {"idle", "await", "done", "raised"}

\* ------------------------------------------------------------------------
\* Properties of the ToolManager and its views
\* ------------------------------------------------------------------------
\* Caller t starts a call in this step.
Starts(t) == task[t].pc = "idle" /\ task'[t].pc # "idle"
\* The call started by t in this step reaches the cache check of the manager.
ReachesCache(t) ==
  /\ Starts(t)
  /\ (ViewOf(t).scoped => task'[t].name \in ViewOf(t).allowed)
  /\ task'[t].name \in DOMAIN tools
  /\ task'[t].arguments.kind = "dict"
KeyOf(rec) == CacheKey(rec.name, rec.arguments)
\* Call t awaits the tool's callable, which it invoked at time task[t].now.
Awaiting(t) == task[t].pc = "await"
SameCall(t, u) ==
  task[t].name = task[u].name /\ task[t].arguments = task[u].arguments

\* C1 (as stated): of two calls of the same tool with identical arguments
\* whose starts lie within one TTL window only one invokes the callable, also
\* when the second starts while the first call's callable is still awaiting.
C1_OnceInEveryInterleaving ==
  \A t, u \in Tasks :
    (t # u /\ SameCall(t, u) /\ Abs(task[t].now - task[u].now) < task[t].ttl)
    => ~(Awaiting(t) /\ Awaiting(u))

\* C1 (amended): when a call starts after another call of the same tool with
\* identical arguments has stored its result, and that result is still in the
\* cache and has not expired, the later call does not invoke the callable (one
\* invocation in total) and receives the same result.
C1_SharedAfterStore ==
  [][\A t, u \in Tasks :
       (/\ t # u
        /\ ReachesCache(t)
        /\ task[u].pc = "done" /\ task[u].stored
        /\ task[u].name = task'[t].name
        /\ task[u].arguments = task'[t].arguments
        /\ KeyOf(task[u]) \in DOMAIN cache
        /\ cache[KeyOf(task[u])].value = task[u].result
        /\ clock < cache[KeyOf(task[u])].expires_at)
       => (/\ task'[t].pc = "done"
           /\ ~task'[t].invoked
           /\ task'[t].result = task[u].result)]_vars

\* Two callers holding different views shared one invocation.
C1_Witness ==
  \E t, u \in Tasks :
    /\ t # u /\ ViewOf(t) # ViewOf(u)
    /\ task[u].pc = "done" /\ task[u].stored
    /\ task[t].pc = "done" /\ task[t].hit /\ ~task[t].invoked
    /\ SameCall(t, u) /\ task[t].result = task[u].result

\* C7: a call of a registered tool invokes the callable if and only if the
\* cache holds no entry for its key or the entry's expiry is not later than the
\* current time; a hit returns the cached value and leaves the cache (entry and
\* expiry) unchanged; a completed invocation replaces the entry with the
\* returned value and expiry = call start time + ttl.
C7_InvokeIffNotLive ==
  [][\A t \in Tasks :
       /\ ReachesCache(t) =>
            LET k == KeyOf(task'[t])
                live == k \in DOMAIN cache /\ clock < cache[k].expires_at
            IN /\ task'[t].invoked <=> ~live
               /\ task'[t].invoked <=> task'[t].pc = "await"
               /\ live => /\ task'[t].pc = "done"
                          /\ task'[t].result = cache[k].value
                          /\ cache' = cache
               /\ ~live => task'[t].now = clock
       /\ (task[t].pc = "await" /\ task'[t].stored) =>
            /\ KeyOf(task[t]) \in DOMAIN cache'
            /\ cache'[KeyOf(task[t])] =
                 [value |-> task'[t].result,
                  expires_at |-> task[t].now + RegisteredTools[task[t].name].ttl]]_vars

\* A call that found an entry at the instant of its expiry, or later, has
\* invoked the callable again.
C7_Witness ==
  \E t \in Tasks :
    /\ Awaiting(t)
    /\ task[t].key \in DOMAIN cache
    /\ cache[task[t].key].expires_at <= task[t].now

\* C8: a call through a view for a name outside its allow-list returns an
\* error value, invokes no callable and neither reads nor changes the cache or
\* the registered tools.
C8_DeniedTouchesNothing ==
  [][\A t \in Tasks :
       (Starts(t) /\ ViewOf(t).scoped /\ task'[t].name \notin ViewOf(t).allowed)
       => /\ task'[t].pc = "done"
          /\ task'[t].result = ErrNotAvailable
          /\ ~task'[t].invoked /\ ~task'[t].hit /\ ~task'[t].stored
          /\ task'[t].key = ""
          /\ cache' = cache /\ tools' = tools]_vars

\* A view was denied a registered tool while a live entry for the same name
\* and arguments, created through another view, was in the cache.
C8_Witness ==
  \E t \in Tasks :
    /\ task[t].pc = "done" /\ task[t].result = ErrNotAvailable
    /\ task[t].name \in DOMAIN tools
    /\ task[t].arguments.kind = "dict"
    /\ CacheLive(cache, KeyOf(task[t]), clock)

\* C10: under every interleaving each cache entry is a complete
\* {value, expires_at} pair written by one invocation of the key's tool: its
\* value is what that invocation returned and its expiry that invocation's
\* start time plus the tool's ttl; an entry changes only by such a write (last
\* writer wins) and disappears only by clear_cache; a live entry is returned
\* to every caller that reads its key.
C10_EntryIntegrity ==
  [][/\ \A k \in DOMAIN cache' :
          (k \notin DOMAIN cache \/ cache'[k] # cache[k]) =>
            \E t \in Tasks :
              /\ task[t].pc = "await" /\ task'[t].pc = "done"
              /\ k = KeyOf(task[t])
              /\ DOMAIN cache'[k] = {"value", "expires_at"}
              /\ cache'[k].value \in ToolResults
              /\ cache'[k].value = task'[t].result
              /\ cache'[k].expires_at =
                   task[t].now + RegisteredTools[task[t].name].ttl
     /\ (\E k \in DOMAIN cache : k \notin DOMAIN cache') => cache' = <<>>
     /\ \A t \in Tasks :
          (ReachesCache(t) /\ KeyOf(task'[t]) \in DOMAIN cache
             /\ clock < cache[KeyOf(task'[t])].expires_at)
          => task'[t].result = cache[KeyOf(task'[t])].value]_vars

\* Two concurrent misses on one key both stored, the later write replacing the
\* earlier with another value, while an entry of another key stayed in place.
C10_Witness ==
  \E t, u \in Tasks :
    /\ t # u /\ SameCall(t, u)
    /\ task[t].stored /\ task[u].stored
    /\ task[t].result # task[u].result
    /\ task[t].key \in DOMAIN cache
    /\ cache[task[t].key].value = task[t].result
    /\ Cardinality(DOMAIN cache) >= 2

\* ------------------------------------------------------------------------
\* Properties of call_model and _retry_with_backoff
\* ------------------------------------------------------------------------
Outcomes ==
  {"answer", "parse_error", "converge_error", "provider_error",
   "tool_exception", "no_tool_manager", "no_api_key"}

TypeAgent ==
  /\ cm.pc \in {"idle", "call", "sleep", "tools", "done"}
  /\ cm.pc = "done" <=> cm.outcome \in Outcomes
  /\ cm.pc # "done" <=> cm.outcome = "none"

\* The failure texts by what the pattern lists say about them.
NonRetryableTexts == {E401, E429With400}
RetryableTexts == {E503, ERateLimit}
UnrecognizedTexts == {ETimeout}

\* The provider call of the current attempt fails in this step.
AttemptFails == cm.pc = "call" /\ (cm'.pc = "sleep" \/ cm'.outcome = "provider_error")
\* The provider call of the current attempt succeeds in this step.
AttemptSucceeds ==
  cm.pc = "call" /\ (cm'.pc = "tools" \/ cm'.outcome \in {"answer", "parse_error"})

\* C4 (as stated): call_model makes at most max_tool_rounds + 1 retry-wrapped
\* provider calls, never starts a round above max_tool_rounds, and (given an
\* API key) ends with a terminal answer or with the convergence error,
\* whatever the provider does.
C4_AnswerOrConvergence ==
  /\ cm.rounds <= MaxToolRounds + 1
  /\ cm.round_num <= MaxToolRounds
  /\ (cm.pc = "done" /\ cm.outcome # "no_api_key")
       => cm.outcome \in {"answer", "parse_error", "converge_error"}

\* C4 (amended): call_model makes at most max_tool_rounds + 1 retry-wrapped
\* provider calls, never starts a round above max_tool_rounds, and ends with a
\* terminal answer, with the convergence error (only after all
\* max_tool_rounds + 1 rounds were answered with tool-call requests), or with
\* a structured error for a provider failure, a missing API key or an
\* exception raised while dispatching a requested tool call.
C4_RoundBudget ==
  /\ cm.rounds <= MaxToolRounds + 1
  /\ cm.round_num <= MaxToolRounds
  /\ cm.pc \in {"call", "sleep", "tools"} => cm.rounds = cm.round_num + 1
  /\ cm.pc = "done" => cm.outcome \in Outcomes
  /\ cm.outcome = "converge_error" =>
       cm.rounds = MaxToolRounds + 1 /\ cm.round_num = MaxToolRounds
  /\ cm.outcome = "no_api_key" => cm.rounds = 0

\* The loop was exhausted: every round was answered with tool-call requests.
C4_Witness == cm.pc = "done" /\ cm.outcome = "converge_error"

\* C5: _retry_with_backoff sleeps and retries only after a failure with a
\* retryable text, makes at most max_retries + 1 attempts, returns the first
\* success without a further attempt or sleep, and re-raises the last error
\* once max_retries retries are used up.
C5_RetryOnlyTransient ==
  [][/\ cm.attempt <= MaxRetries /\ cm'.attempt <= MaxRetries
     /\ Len(cm'.delays) <= MaxRetries
     /\ cm'.pc \in {"call", "sleep"} =>
          Len(cm'.delays) = cm'.attempt + (IF cm'.pc = "sleep" THEN 1 ELSE 0)
     /\ (cm.pc = "call" /\ cm'.pc = "sleep") =>
          /\ cm'.last_exception \in RetryableTexts
          /\ cm.attempt < MaxRetries
     /\ (AttemptFails /\ cm'.last_exception \in RetryableTexts) =>
          IF cm.attempt < MaxRetries
          THEN cm'.pc = "sleep"
          ELSE cm'.outcome = "provider_error"
     /\ AttemptSucceeds =>
          /\ cm'.attempt = cm.attempt /\ cm'.delays = cm.delays
          /\ cm'.pc # "sleep"]_vars

\* Two retryable failures, the last one a 503, then a success: the call
\* returned the answer after exactly two retries.
C5_Witness ==
  /\ cm.pc = "done" /\ cm.outcome = "answer"
  /\ cm.last_exception = E503 /\ Len(cm.delays) = 2 /\ cm.attempt = 2

\* C6: a failure whose text contains a non-retryable pattern is re-raised on
\* the attempt on which it occurs, without sleep or further attempt, also when
\* the text contains a retryable pattern as well.
C6_NonRetryableImmediate ==
  [][(AttemptFails /\ cm'.last_exception \in NonRetryableTexts) =>
       /\ cm'.pc = "done" /\ cm'.outcome = "provider_error"
       /\ cm'.attempt = cm.attempt /\ cm'.delays = cm.delays]_vars

\* A text with both a retryable and a non-retryable pattern was re-raised on
\* a later attempt, after one retry of another failure.
C6_Witness ==
  /\ cm.pc = "done" /\ cm.outcome = "provider_error"
  /\ cm.last_exception = E429With400
  /\ cm.attempt = 1 /\ Len(cm.delays) = 1

\* C9: no failure of a tool execution leaves execute_tool as an exception:
\* the agent's round is never aborted by one.
C9_NoExceptionFromExecuteTool ==
  /\ task[Worker].pc # "raised"
  /\ cm.outcome # "tool_exception"

\* ------------------------------------------------------------------------
\* Properties of the fan-out of analyze_ticker
\* ------------------------------------------------------------------------
\* The tasks inside the semaphore-gated section, over all runs in flight.
Inside == {p \in Runs \X (1..NumAgents) : wk[p[1]][p[2]] = "inside"}

\* C2: at every moment at most ConcurrencyLimit (5) tasks are inside the
\* gated section, over all workers of all runs in flight; the free slots and
\* the tasks inside always add up to the limit, and a task waits only while
\* all slots are taken.
C2_AtMostLimitInside ==
  /\ Cardinality(Inside) <= ConcurrencyLimit
  /\ sem + Cardinality(Inside) = ConcurrencyLimit
  /\ sem >= 0
  /\ waiters # <<>> => sem = 0

\* All slots are taken and tasks of another run wait for one.
C2_Witness ==
  /\ Cardinality(Inside) = ConcurrencyLimit
  /\ Len(waiters) >= 2
  /\ \E p \in Inside : p[1] # Head(waiters)[1]

\* C3: the fan-out yields exactly one entry per agent, in submission order,
\* whatever the order in which the agents finish and whichever of them raise:
\* a failed agent has a structured error entry at its position, every other
\* agent its own report, and no result is collected before every task of the
\* run has finished.
C3_OneEntryPerAgent ==
  \A r \in Runs :
    results[r] # <<>> =>
      /\ Len(results[r]) = NumAgents
      /\ \A i \in 1..NumAgents :
           /\ wk[r][i] \in {"returned", "raised"}
           /\ wk[r][i] = "returned" => results[r][i] = Report(i)
           /\ wk[r][i] = "raised" =>
                /\ results[r][i].signal = "NEUTRAL"
                /\ "error" \in DOMAIN results[r][i]

\* A run was collected in which the second and the last agent raised.
C3_Witness ==
  \E r \in Runs :
    /\ results[r] # <<>>
    /\ wk[r][2] = "raised" /\ wk[r][5] = "raised"
    /\ wk[r][1] = "returned" /\ wk[r][3] = "returned"

\* ------------------------------------------------------------------------
\* C11: a tool call made by the Quant task of a run passes that run's own
\* data package as context, whatever other runs are in flight.
\* ------------------------------------------------------------------------
C11_OwnContext ==
  \A r \in Runs : \A k \in DOMAIN qa[r].passed :
    qa[r].passed[k] = DataPackage(r)

\* The result has been through normalize without an exception.
Normalized == norm.pc \in {"normalized", "context"}

\* ------------------------------------------------------------------------
\* C12: a worker that ended with an unrecovered error (provider error,
\* parse error, convergence error, missing API key, exception in the worker)
\* gets a normalized report whose signal is NEUTRAL and whose error field
\* still holds the error text; normalize does not raise for it.
\* ------------------------------------------------------------------------
C12_ErrorsBecomeNeutral ==
  norm.output \in WorkerErrors =>
    /\ norm.pc # "run_error"
    /\ Normalized =>
         /\ Get(norm.report, "signal") = JStr("NEUTRAL")
         /\ Has(norm.report, "error")
         /\ Get(norm.report, "error") = Get(norm.output, "error")

C12_Witness ==
  /\ norm.pc = "context"
  /\ norm.output = ErrorReturn(CrashText)
  /\ Get(norm.report, "signal") = JStr("NEUTRAL")
  /\ Get(norm.report, "error") = JStr(CrashText)

\* ------------------------------------------------------------------------
\* C13: normalize returns a report for every JSON-shaped worker result; no
\* result makes it raise and end the run with a run-level error.
\* ------------------------------------------------------------------------
C13_NormalizeIsTotal == norm.pc # "run_error"

\* ------------------------------------------------------------------------
\* C14: every normalized report has a signal field whose value is BULLISH,
\* BEARISH or NEUTRAL.
\* ------------------------------------------------------------------------
C14_SignalInBuckets ==
  Normalized =>
    /\ Has(norm.report, "signal")
    /\ Get(norm.report, "signal") \in
         {JStr("BULLISH"), JStr("BEARISH"), JStr("NEUTRAL")}

\* ------------------------------------------------------------------------
\* C15: every normalized report has a confidence that is a number in [0,1];
\* an absent confidence of the raw result becomes 0.5.
\* ------------------------------------------------------------------------
C15_ConfidenceInRange ==
  Normalized =>
    /\ Has(norm.report, "confidence")
    /\ Get(norm.report, "confidence").t = "num"
    /\ Get(norm.report, "confidence").n >= 0
    /\ Get(norm.report, "confidence").n <= 10
    /\ (norm.output.t = "obj" /\ ~Has(norm.output, "confidence"))
         => Get(norm.report, "confidence").n = 5

\* ------------------------------------------------------------------------
\* C18: the raw report handed to synthesis for a worker is that worker's
\* original output, unchanged by normalization.
\* ------------------------------------------------------------------------
C18_RawUnchanged == norm.pc = "context" => norm.raw = norm.output

\* The normalized signal and confidence of a report given to decide: the
\* fields of the report, NEUTRAL and 0.5 where the field is absent.
NormalizedSignal(report) ==
  IF Has(report, "signal") THEN Get(report, "signal").s ELSE "NEUTRAL"
NormalizedConfidence(report) ==
  IF Has(report, "confidence") THEN Get(report, "confidence").n ELSE 5

\* The sum of the normalized confidences of the reports in bucket b.
RECURSIVE BucketSum(_, _)
BucketSum(squad_analysis, b) ==
  IF Len(squad_analysis) = 0 THEN 0
  ELSE BucketSum(Tail(squad_analysis), b)
         + (IF NormalizedSignal(Head(squad_analysis)) = b
            THEN NormalizedConfidence(Head(squad_analysis)) ELSE 0)

\* decide has computed a consensus (no float() raised on the way).
Decided == dec.pc = "decided" /\ dec.raised = ""

\* ------------------------------------------------------------------------
\* C16: the weight of each bucket is the sum of the normalized confidences
\* of the reports whose normalized signal is that bucket, a confidence of 0
\* counting as 0.
\* ------------------------------------------------------------------------
C16_WeightsAreSums ==
  Decided =>
    \A i \in 1..Len(Buckets) :
      dec.signal_weights[Buckets[i]] = BucketSum(dec.squad_analysis, Buckets[i])

\* ------------------------------------------------------------------------
\* C17: the consensus signal is the bucket of maximal weight, ties going to
\* BULLISH before BEARISH before NEUTRAL; the strength is that weight over
\* the total weight, a total of zero counted as 1.0, so the divisor is never
\* zero and the strength lies in [0,1], for the empty squad too.
\* ------------------------------------------------------------------------
C17_Consensus ==
  Decided =>
    LET w == dec.signal_weights
        s == dec.consensus_signal
        sum == w["BULLISH"] + w["BEARISH"] + w["NEUTRAL"]
    IN /\ \A i \in 1..Len(Buckets) : w[Buckets[i]] <= w[s]
       /\ s = "BEARISH" => w["BULLISH"] < w[s]
       /\ s = "NEUTRAL" => (w["BULLISH"] < w[s] /\ w["BEARISH"] < w[s])
       /\ dec.total_weight = (IF sum = 0 THEN 10 ELSE sum)
       /\ dec.total_weight > 0
       /\ dec.consensus_strength = w[s]
       /\ 0 <= dec.consensus_strength
       /\ dec.consensus_strength <= dec.total_weight

C17_Witness ==
  /\ Decided
  /\ dec.squad_analysis = <<>>
  /\ dec.total_weight = 10
  /\ dec.consensus_signal = "BULLISH"
  /\ dec.consensus_strength = 0

\* ------------------------------------------------------------------------
\* C19: in every round of call_model the provider is offered tools exactly
\* when the agent has a tool manager and round_num < max_tool_rounds; the
\* round max_tool_rounds goes out without tools, and so does every round of
\* an agent without a tool manager.
\* ------------------------------------------------------------------------
C19_ToolsOfferedIff ==
  cm.pc \in {"call", "sleep"} =>
    /\ cm.offer_tools <=> (cm.tm /\ cm.round_num < MaxToolRounds)
    /\ cm.round_num = MaxToolRounds => ~cm.offer_tools
    /\ ~cm.tm => ~cm.offer_tools

C19_Witness ==
  /\ cm.pc = "call"
  /\ cm.tm
  /\ cm.round_num = MaxToolRounds
  /\ ~cm.offer_tools

\* ------------------------------------------------------------------------
\* C20: within one call_model call the accumulated tool results only grow:
\* a name stays once it is in, its result changes only when a later call of
\* that same tool is merged, every merged call is in under its name, and the
\* content of each round carries the user content and the whole map.
\* ------------------------------------------------------------------------
C20_ResultsAccumulate ==
  [][(cm.pc # "idle" /\ cm'.pc # "idle") =>
       /\ \A n \in DOMAIN cm.all_tool_results :
            /\ n \in DOMAIN cm'.all_tool_results
            /\ cm'.all_tool_results[n] # cm.all_tool_results[n] =>
                 (task[Worker].pc = "done" /\ task[Worker].name = n)
       /\ (task[Worker].pc = "done" /\ task'[Worker].pc = "idle") =>
            /\ task[Worker].name \in DOMAIN cm'.all_tool_results
            /\ cm'.all_tool_results[task[Worker].name] = task[Worker].result
       /\ cm'.pc \in {"call", "sleep"} =>
            /\ cm'.content.user_content
            /\ cm'.content.tool_results = cm'.all_tool_results]_vars

C20_Witness ==
  /\ cm.pc = "call"
  /\ cm.round_num >= 1
  /\ {"get_indicators", "get_social_sentiment"}
       \subseteq DOMAIN cm.content.tool_results

\* ------------------------------------------------------------------------
\* The retry wrapper and failures by their text
\* ------------------------------------------------------------------------
\* The text holds one of the patterns, compared without regard to case.
Matches(patterns, text) ==
  \E i \in 1..Len(patterns) : Contains(Lower(text), Lower(patterns[i]))

\* C21: a provider-call timeout whose text matches no non-retryable pattern
\* is retried: while retries are left, _retry_with_backoff sleeps after it
\* instead of re-raising it.
C21_TimeoutRetried ==
  [][(/\ AttemptFails
      /\ cm'.last_exception = ETimeout
      /\ ~Matches(NON_RETRYABLE_PATTERNS, ETimeout)
      /\ cm.attempt < MaxRetries)
       => cm'.pc = "sleep"]_vars

\* C26: a failure whose text matches neither the retryable nor the
\* non-retryable patterns is re-raised on the attempt on which it occurs,
\* without a sleep and without a further attempt, whatever the attempt number.
C26_UnrecognizedImmediate ==
  [][(/\ AttemptFails
      /\ ~Matches(NON_RETRYABLE_PATTERNS, cm'.last_exception)
      /\ ~Matches(RETRYABLE_PATTERNS, cm'.last_exception))
       => /\ cm'.pc = "done" /\ cm'.outcome = "provider_error"
          /\ cm'.attempt = cm.attempt /\ cm'.delays = cm.delays]_vars

\* The timeout text was re-raised on the third attempt, after two retries of
\* other failures.
C26_Witness ==
  /\ cm.pc = "done" /\ cm.outcome = "provider_error"
  /\ cm.last_exception = ETimeout
  /\ ~Matches(NON_RETRYABLE_PATTERNS, ETimeout)
  /\ ~Matches(RETRYABLE_PATTERNS, ETimeout)
  /\ cm.attempt = 2 /\ Len(cm.delays) = 2

\* C27: the delay slept before retry k (k = 0, 1, 2, ...) is 2^k seconds plus
\* a jitter in [0, 1), so the delays of one retry sequence increase strictly;
\* nothing is slept before the first attempt, after a success or after the
\* final failure. Delays are in tenths of a second.
C27_BackoffDelays ==
  [][/\ (cm.pc = "call" /\ cm'.pc = "sleep") =>
          \E d \in (10 * Pow2(cm.attempt))..(10 * Pow2(cm.attempt) + 9) :
             /\ cm'.delays = Append(cm.delays, d)
             /\ Len(cm.delays) = cm.attempt
     /\ \A i, j \in 1..Len(cm'.delays) : i < j => cm'.delays[i] < cm'.delays[j]
     /\ (cm'.pc = "call" /\ cm'.attempt = 0) => cm'.delays = <<>>
     /\ AttemptSucceeds => (cm'.delays = cm.delays /\ cm'.pc # "sleep")
     /\ (AttemptFails /\ cm'.pc # "sleep") =>
          (cm'.delays = cm.delays /\ cm'.pc = "done")
     /\ cm'.delays # cm.delays =>
          \/ cm.pc = "call" /\ cm'.pc = "sleep"
          \/ cm'.delays = <<>>]_vars

\* Three retries, the first with the largest jitter and the second with the
\* smallest, and then the final failure.
C27_Witness ==
  /\ cm.pc = "done" /\ cm.outcome = "provider_error"
  /\ cm.attempt = MaxRetries
  /\ Len(cm.delays) = 3
  /\ cm.delays[1] = 19 /\ cm.delays[2] = 20 /\ cm.delays[3] = 49

\* ------------------------------------------------------------------------
\* The signal of a normalized report
\* ------------------------------------------------------------------------
\* The report without the field k.
Without(d, k) ==
  JObj(SelectSeq(d.items, LAMBDA item : item[1] # k))

\* The worker's output was a report and normalize has returned.
NormalizedReport == Normalized /\ norm.output.t = "obj"

\* C28: a boolean approved decides the signal, BULLISH for true and BEARISH
\* for false, whatever signal, action or outlook say; an absent or
\* non-boolean approved has no part in it, and the signal is the one resolved
\* from signal, action and outlook.
C28_ApprovedOverrides ==
  NormalizedReport =>
    LET approved == Get(norm.output, "approved")
        signal == Get(norm.report, "signal")
    IN /\ approved = JBool(TRUE) => signal = JStr("BULLISH")
       /\ approved = JBool(FALSE) => signal = JStr("BEARISH")
       /\ approved.t # "bool" =>
            signal = JStr(ResolveSignal(Without(norm.output, "approved")))

\* An approved report that says SELL came out BULLISH.
C28_Witness ==
  /\ norm.pc = "context" /\ norm.output.t = "obj"
  /\ Get(norm.output, "approved") = JBool(TRUE)
  /\ Get(norm.output, "signal") = JStr("SELL")
  /\ Get(norm.report, "signal") = JStr("BULLISH")

\* The class of a raw signal, by its lower-case form.
ClassOf(text) ==
  LET t == Lower(text)
  IN IF \E w \in {"bullish", "buy", "positive", "approve"} : Contains(t, w)
     THEN "BULLISH"
     ELSE IF \E w \in {"bearish", "sell", "negative", "veto", "reject"} :
               Contains(t, w)
     THEN "BEARISH"
     ELSE "NEUTRAL"

\* The fields of d among keys, in the order of keys, that d has / that d has
\* with a truthy value.
Present(d, keys) == SelectSeq(keys, LAMBDA k : Has(d, k))
NonEmpty(d, keys) == SelectSeq(keys, LAMBDA k : Truthy(Get(d, k)))

C22_UnregisteredName ==
  [][\A t \in Tasks :
       (/\ Starts(t)
        /\ task'[t].name \notin DOMAIN tools
        /\ ViewOf(t).scoped => task'[t].name \in ViewOf(t).allowed)
       => /\ task'[t].pc = "done"
          /\ task'[t].result = ErrNotFound
          /\ ~task'[t].invoked /\ ~task'[t].hit /\ ~task'[t].stored
          /\ cache' = cache /\ tools' = tools]_vars

\* A call with arguments None for an unregistered name returned the error
\* while the cache held a result.
C22_Witness ==
  \E t \in Tasks :
    /\ task[t].pc = "done" /\ task[t].result = ErrNotFound
    /\ task[t].name \notin DOMAIN tools
    /\ task[t].arguments = NoneArgs
    /\ ~task[t].invoked
    /\ cache # <<>>

\* ------------------------------------------------------------------------
\* C23: AgentToolView.get_tool_schemas returns exactly the schemas of the
\* tools that are registered in the parent at the time of the call and named
\* in the allow-list of the view, one per such tool and nothing else.
\* ------------------------------------------------------------------------
C23_ViewSchemas ==
  [][(schemas' # schemas /\ schemas'.view.scoped) =>
       LET list == schemas'.list
           listed == DOMAIN tools \cap schemas'.view.allowed
       IN /\ \A i \in 1..Len(list) : \E n \in listed : list[i] = tools[n].schema
          /\ \A n \in listed :
               Cardinality({i \in 1..Len(list) : list[i] = tools[n].schema})
                 = Cardinality({m \in listed : tools[m].schema = tools[n].schema})
          /\ Len(list) = Cardinality(listed)]_vars

\* A view created before extra_tool was registered lists the schema of
\* extra_tool and the later revision of the schema of get_indicators.
C23_Witness ==
  /\ schemas.called /\ schemas.view = ExtraView
  /\ schemas.list = <<Schema("get_indicators", "v2"), Schema("extra_tool", "v1")>>
  /\ "no_such_tool" \in DOMAIN tools

\* ------------------------------------------------------------------------
\* Paper trading
\* ------------------------------------------------------------------------
\* C24: execute_order with side SELL for a symbol that the portfolio does not
\* hold raises ValueError with 'Insufficient shares' in its message and
\* leaves cash, holdings and history as they were.
C24_SellUnheldRaises ==
  [][(/\ Upper(order'.side) = "SELL"
      /\ Upper(order'.symbol) \notin DOMAIN portfolio.holdings)
       => /\ order'.outcome = "ValueError: Insufficient shares"
          /\ portfolio' = portfolio]_vars

RECURSIVE BalancedEnd(_, _, _)
BalancedEnd(s, i, depth) ==
  IF i > Len(s) THEN 0
  ELSE LET d == IF Ch(s, i) = "{" THEN depth + 1
                ELSE IF Ch(s, i) = "}" THEN depth - 1 ELSE depth
       IN IF d = 0 THEN i ELSE BalancedEnd(s, i + 1, d)

\* The positions of s at which a balanced {...} substring begins.
BalancedStarts(s) ==
  {i \in 1..Len(s) : Ch(s, i) = "{" /\ BalancedEnd(s, i, 0) # 0}
\* The first balanced {...} substring of s.
FirstBalanced(s) ==
  LET i == SetMin(BalancedStarts(s)) IN SubSeq(s, i, BalancedEnd(s, i, 0))

\* C30: when the terminal answer, after the fences are stripped, is not valid
\* JSON but holds a balanced {...} substring, call_model decodes and returns
\* the first such substring, also when text or braces follow it; the call
\* fails with a parse error only when the strict decoding and this fallback
\* both fail.
C30_FirstBalancedDecoded ==
  (ans.pc = "done" /\ ans.is_json /\ ~json_loads(ans.text).ok) =>
    IF BalancedStarts(ans.text) # {} /\ json_loads(FirstBalanced(ans.text)).ok
    THEN /\ ans.outcome = "answer"
         /\ ans.value = json_loads(FirstBalanced(ans.text)).v
    ELSE ans.outcome = "parse_error"

\* ------------------------------------------------------------------------
\* Cache keys and contexts
\* ------------------------------------------------------------------------
\* The calls whose result came from the callable, at once or through the
\* cache.
Served(t) == task[t].pc = "done" /\ (task[t].hit \/ task[t].stored)

\* C31: two calls address one cache entry if and only if they name the same
\* tool and carry equal argument maps, whatever the order of the arguments,
\* the types of the values and the characters in them; a hit never returns
\* a value computed for another tool or for other arguments.
C31_KeyIsInjective ==
  \A t \in Tasks :
    (task[t].pc = "done" /\ task[t].hit) =>
      /\ task[t].result.tool = task[t].name
      /\ task[t].result.kwargs = ArgMap(task[t].arguments)

\* C32: once a name is registered, the entry stored for it (callable, schema
\* and ttl) is never changed by a later register_tool, execute_tool, view or
\* clear_cache call.
C32_EntryImmutable ==
  [][\A n \in DOMAIN tools : n \in DOMAIN tools' /\ tools'[n] = tools[n]]_vars

\* C33: the orchestrator's direct call of predict_price_direction, made
\* after the workers have finished, is served from the cache and does not
\* invoke the callable.
C33_AttachIsCacheHit ==
  \A t \in Tasks :
    (task[t].direct /\ task[t].pc # "idle") =>
      (task[t].pc = "done" /\ task[t].hit /\ ~task[t].invoked)

\* C34: a value returned for a tool that accepts a context was computed from
\* the context passed in the same call; a value cached by a call with another
\* context is never returned.
C34_ContextOfTheCall ==
  \A t \in Tasks :
    (Served(t) /\ task[t].name \in AcceptsContext) =>
      task[t].result.context = task[t].context

\* ------------------------------------------------------------------------
\* C35: every call_model invocation terminates when every provider call and
\* tool call returns or raises: at most max_tool_rounds + 1 = 4 rounds, in
\* every round at most max_retries + 1 = 4 provider attempts, counted from 0
\* again when a round begins (so at most 16 provider attempts in all), and
\* the invocation ends by returning a value (answer or structured error),
\* never by raising.
\* ------------------------------------------------------------------------
C35_Terminates ==
  /\ [](/\ cm.rounds <= MaxToolRounds + 1
        /\ cm.attempt <= MaxRetries
        /\ cm.pc = "done" => cm.outcome \in Outcomes)
  /\ [][/\ cm'.rounds = cm.rounds + 1 => (cm'.attempt = 0 /\ cm'.pc = "call")
        /\ cm'.attempt # cm.attempt =>
             \/ cm'.attempt = cm.attempt + 1 /\ cm'.rounds = cm.rounds
             \/ cm'.attempt = 0]_vars
  /\ (cm.pc # "idle" ~> cm.pc = "done")

\* The fourth round began with a fresh budget after a round of four
\* attempts, used its four attempts as well, and the convergence error was
\* returned.
C35_Witness ==
  /\ cm.pc = "done" /\ cm.outcome = "converge_error"
  /\ cm.rounds = MaxToolRounds + 1 /\ cm.attempt = MaxRetries
  /\ Len(cm.delays) = MaxRetries

\* C36: every task queued on the orchestrator's semaphore is admitted in the
\* end, given that agent.analyze of every admitted task returns or raises;
\* the slot is given back on every way out, so that all ConcurrencyLimit
\* slots are free whenever no task is inside the gated section.
C36_WaitersAdmitted ==
  /\ \A r \in Runs, i \in 1..NumAgents :
       wk[r][i] = "waiting" ~> wk[r][i] = "inside"
  /\ []((\A r \in Runs, i \in 1..NumAgents : wk[r][i] # "inside")
          => (sem = ConcurrencyLimit /\ waiters = <<>>))

\* Tasks are still queued after another task has left the gated section.
C36_Witness ==
  /\ waiters # <<>> /\ sem = 0
  /\ \E r \in Runs, i \in 1..NumAgents : wk[r][i] = "left"

\* The conditions under which analyze_ticker may place an order.
MayTrade ==
  /\ auto.autonomous
  /\ Get(auto.final_decision, "action") \in {JStr("BUY"), JStr("SELL")}
  /\ auto.risk_validation.t = "obj"
  /\ Get(auto.risk_validation, "approved") = JBool(TRUE)
  /\ calculate_position_size(auto.current_price, portfolio.cash) > 0

\* C37: analyze_ticker places an order only for an autonomous run whose
\* decision is BUY or SELL, whose risk validation has approved equal to true
\* and whose sized quantity is positive; in every other case, a failed or
\* malformed validation included, no order is placed and the portfolio
\* stays as it is.
C37_OrderOnlyIfApproved ==
  [][(auto.pc = "gate" /\ ~MayTrade) => UNCHANGED <<portfolio, order>>]_vars

\* C38: a BUY or SELL plan with a failed deterministic check is never
\* approved: validate returns approved = false together with the checks,
\* the failed ones among them, and calls no provider.
C38_FailedCheckVetoes ==
  LET check_results == run_deterministic_checks(auto.final_decision, portfolio.cash)
      failed == FailedChecks(check_results)
  IN (/\ auto.pc \in {"provider", "gate"}
      /\ PlanAction(auto.final_decision) \in {"BUY", "SELL"}
      /\ failed # <<>>)
     => /\ auto.pc = "gate"
        /\ ~auto.provider_called
        /\ Get(auto.risk_validation, "approved") = JBool(FALSE)
        /\ Get(auto.risk_validation, "deterministic_checks") = JList(check_results)
        /\ Len(Get(auto.risk_validation, "veto_reason").s) > 0

\* validate has returned the veto for a SELL whose reward is once its risk.
C38_Witness ==
  /\ auto.pc = "gate"
  /\ PlanAction(auto.final_decision) = "SELL"
  /\ Get(auto.risk_validation, "approved") = JBool(FALSE)
  /\ \E i \in 1..Len(auto.check_results) :
       /\ Get(auto.check_results[i], "check") = JStr("risk_reward_ratio")
       /\ Get(auto.check_results[i], "passed") = JBool(FALSE)

\* C39: however sync_portfolio_stops calls interleave with execute_order
\* and with one another, what a completed execute_order did persists: its
\* history record stays, and a sync step that closes no position leaves
\* cash and holdings as the file has them, rather than writing back what it
\* loaded before the order.
C39_OrdersPersist ==
  [][/\ Len(portfolio'.history) >= Len(portfolio.history)
     /\ SubSeq(portfolio'.history, 1, Len(portfolio.history)) = portfolio.history
     /\ Len(portfolio'.history) = Len(portfolio.history) =>
          (portfolio'.cash = portfolio.cash /\
           portfolio'.holdings = portfolio.holdings)]_vars

\* C40: the Analyst's file cache never holds, and analyze never returns
\* from it, a result that carries an error; after a failed model call the
\* next analysis of the same ticker and horizon calls the model again.
C40_NoErrorCached ==
  /\ \A k \in DOMAIN an.cache :
       an.cache[k].t = "obj" => ~Has(an.cache[k], "error")
  /\ (an.call.pc = "done" /\ an.call.hit) => ~Has(an.call.result, "error")

====
